---- MODULE Spec2Model ----
(***************************************************************************)
(* browser-tabs-mcp: the MCP tool server (mcp-server/index.js, kept here   *)
(* as src/unnamed/part_000), the native messaging host                     *)
(* (src/native-host/host.template.js) and the two files they share:        *)
(* tabs-data.json (the snapshot) and commands.json (the command queue);    *)
(* and the extension that executes the queue (src/extension/background.js  *)
(* with the popup, src/unnamed/part_001).                                  *)
(*                                                                         *)
(* Strings are TLA+ strings; includes/startsWith/toLowerCase are computed  *)
(* character by character.  Date.now() is the variable now (milliseconds). *)
(***************************************************************************)
EXTENDS Integers, Sequences, FiniteSets, TLC

VARIABLES tabsFile, commandsFile, now, last, pendingCommands, worker, server

\* The popup's list, the background script's handling of an executeCommands
\* message, and the server's writeCommand calls in progress
extension == <<pendingCommands, worker, server>>

vars == <<tabsFile, commandsFile, now, last, pendingCommands, worker, server>>

(***************************************************************************)
(* Bounds of the model.                                                    *)
(***************************************************************************)
MaxTabs == 2
MaxQueue == 1
MaxClock == 1

(***************************************************************************)
(* JavaScript string and array primitives.                                 *)
(***************************************************************************)
Includes(s, p) ==
  \E i \in 1..(Len(s) - Len(p) + 1) : SubSeq(s, i, i + Len(p) - 1) = p

StartsWith(s, p) ==
  Len(s) >= Len(p) /\ SubSeq(s, 1, Len(p)) = p

LowerChar(c) ==
  CASE c = "A" -> "a" [] c = "B" -> "b" [] c = "C" -> "c" [] c = "D" -> "d"
    [] c = "E" -> "e" [] c = "F" -> "f" [] c = "G" -> "g" [] c = "H" -> "h"
    [] c = "I" -> "i" [] c = "J" -> "j" [] c = "K" -> "k" [] c = "L" -> "l"
    [] c = "M" -> "m" [] c = "N" -> "n" [] c = "O" -> "o" [] c = "P" -> "p"
    [] c = "Q" -> "q" [] c = "R" -> "r" [] c = "S" -> "s" [] c = "T" -> "t"
    [] c = "U" -> "u" [] c = "V" -> "v" [] c = "W" -> "w" [] c = "X" -> "x"
    [] c = "Y" -> "y" [] c = "Z" -> "z" [] OTHER -> c

RECURSIVE ToLowerCase(_)
ToLowerCase(s) ==
  IF Len(s) = 0 THEN ""
  ELSE LowerChar(SubSeq(s, 1, 1)) \o ToLowerCase(SubSeq(s, 2, Len(s)))

\* Array.prototype.map
Map(s, F(_)) == [i \in 1..Len(s) |-> F(s[i])]

\* Array.prototype.includes
Contains(s, x) == \E i \in 1..Len(s) : s[i] = x

RECURSIVE Join(_, _)
Join(s, sep) ==
  IF Len(s) = 0 THEN ""
  ELSE IF Len(s) = 1 THEN s[1]
  ELSE s[1] \o sep \o Join(Tail(s), sep)

\* An arguments object is a function from the names of the properties that
\* are present; a missing property reads as undefined.
Has(args, k) == k \in DOMAIN args

NoArgs == <<>>

(***************************************************************************)
(* The snapshot (tabs-data.json).  A tab is the record getAllTabs builds;  *)
(* the server never reads mutedInfo and favIconUrl, which are left out.    *)
(* Pages are the (title, url, hostname, pinned, group, last access)        *)
(* combinations the browser is showing; a snapshot lists at most MaxTabs   *)
(* tabs, each with its own id.                                             *)
(***************************************************************************)
TAB_GROUP_ID_NONE == -1

\* The clock (milliseconds) when the model starts: 25 hours after the
\* oldest time a tab was last accessed
StartTime == 25 * 60 * 60 * 1000

Pages ==
  { [title |-> "acme/store.js", url |-> "https://github.com/acme/store.js/docs/readme",
     domain |-> "github.com", pinned |-> FALSE, groupId |-> TAB_GROUP_ID_NONE,
     lastAccessed |-> StartTime],
    [title |-> "(1) acme/store.js", url |-> "https://github.com/acme/store.js/docs/readme",
     domain |-> "github.com", pinned |-> TRUE, groupId |-> TAB_GROUP_ID_NONE,
     lastAccessed |-> StartTime],
    [title |-> "Video", url |-> "https://www.youtube.com/watch?v=1",
     domain |-> "www.youtube.com", pinned |-> FALSE, groupId |-> 7,
     lastAccessed |-> 1000],
    [title |-> "Example Domain", url |-> "https://example.org/News.html",
     domain |-> "example.org", pinned |-> FALSE, groupId |-> TAB_GROUP_ID_NONE,
     lastAccessed |-> 0],
    [title |-> "Extensions", url |-> "chrome://extensions/",
     domain |-> "extensions", pinned |-> FALSE, groupId |-> TAB_GROUP_ID_NONE,
     lastAccessed |-> StartTime] }

\* getAllTabs: one record per tab, in the browser's order; tab ids are
\* positive and unique
getAllTabs(pages) ==
  [i \in 1..Len(pages) |->
     [id |-> i, windowId |-> 1, index |-> i - 1, title |-> pages[i].title,
      url |-> pages[i].url, domain |-> pages[i].domain,
      pinned |-> pages[i].pinned, active |-> (i = 1),
      groupId |-> pages[i].groupId, lastAccessed |-> pages[i].lastAccessed,
      audible |-> FALSE]]

\* getTabGroups: the groups that exist in the browser
BrowserGroups ==
  << [id |-> 7, title |-> "Work", color |-> "blue", collapsed |-> FALSE,
      windowId |-> 1] >>

getTabGroups(pages) ==
  SelectSeq(BrowserGroups,
            LAMBDA g : \E i \in 1..Len(pages) : pages[i].groupId = g.id)

\* syncTabs: the message sent to the native host
SnapshotOf(pages, t) ==
  [timestamp |-> t, windowCount |-> 1, tabCount |-> Len(pages),
   groups |-> getTabGroups(pages), tabs |-> getAllTabs(pages)]

PageLists == UNION { [1..n -> Pages] : n \in 0..MaxTabs }

(***************************************************************************)
(* The command queue (commands.json).                                      *)
(***************************************************************************)
\* A commands.json whose text is no JSON: no record can be read from it, and
\* JSON.parse throws a SyntaxError on it
GarbledFile == [exists |-> TRUE, content |-> << >>, garbled |-> TRUE]

Parses(file) == "garbled" \notin DOMAIN file

JsonSyntaxError == "Unexpected token in JSON at position 0"

\* { ...command, id: Date.now(), status: 'pending' }
Stamp(command, t) ==
  [k \in DOMAIN command \cup {"id", "status"} |->
     IF k = "id" THEN t ELSE IF k = "status" THEN "pending" ELSE command[k]]

\* A variant of writeCommand that writes the new record alone
writeCommand_Overwrites(file, command, t) ==
  [exists |-> TRUE, content |-> << Stamp(command, t) >>]

\* writeCommand: read the whole file (a missing file reads as []), push,
\* write the whole file
writeCommand(file, command, t) ==
  LET commands == IF file.exists THEN file.content ELSE << >>
  IN  [exists |-> TRUE, content |-> Append(commands, Stamp(command, t))]

\* The writeCommand calls of one request, in order; dt is the time that
\* passes between two consecutive reads of Date.now()
RECURSIVE writeCommands(_, _, _, _)
writeCommands(file, cmds, t, dt) ==
  IF Len(cmds) = 0 THEN file
  ELSE writeCommands(writeCommand(file, Head(cmds), t), Tail(cmds), t + dt, dt)

\* A variant of loadTabs that reads a missing file as an empty snapshot
loadTabs_EmptyWhenMissing(file) ==
  IF file.exists THEN file.content
  ELSE [tabs |-> << >>, groups |-> << >>, timestamp |-> 0]

\* loadTabs: null when tabs-data.json does not exist
Null == [null |-> TRUE]

loadTabs(file) == IF file.exists THEN file.content ELSE Null

NoDataText ==
  "No tab data found. Please click the \"Sync Tabs to Claude\" button in the browser extension first."

ClickExecute == "\n\nClick \"Execute Commands\" in the browser extension to apply."

(***************************************************************************)
(* auto_organize_tabs.                                                     *)
(***************************************************************************)
\* order matters - first match wins
categoryDefinitions ==
  << [name |-> "GitHub", color |-> "green",
      patterns |-> <<"github.com", "gitlab.com", "bitbucket.org">>],
     [name |-> "Jira", color |-> "blue",
      patterns |-> <<"atlassian.net/browse", "atlassian.net/jira", "atlassian.com">>],
     [name |-> "Confluence", color |-> "blue",
      patterns |-> <<"atlassian.net/wiki">>],
     [name |-> "Docs", color |-> "purple",
      patterns |-> <<"docs.", "/docs/", "documentation", "readme", "knip.dev",
                     "nx.dev", "npmjs.com", "developer.", "devdocs.io", "mdn.",
                     "w3schools">>],
     [name |-> "Local Dev", color |-> "yellow",
      patterns |-> <<"localhost", "127.0.0.1", "0.0.0.0">>],
     [name |-> "AI Tools", color |-> "pink",
      patterns |-> <<"claude.ai", "chat.openai.com", "chatgpt.com", "anthropic.com",
                     "huggingface.co", "code.claude">>],
     [name |-> "Articles", color |-> "cyan",
      patterns |-> <<"medium.com", "dev.to", "reddit.com", "hackernews",
                     "news.ycombinator", "blog", "substack.com", "hashnode.",
                     "freecodecamp">>],
     [name |-> "Metrics", color |-> "red",
      patterns |-> <<"datadog", "grafana", "prometheus", "newrelic", "dora",
                     "analytics", "sonarcloud", "sonarqube", "snyk.io", "backstage">>],
     [name |-> "Meetings", color |-> "orange",
      patterns |-> <<"zoom.us", "meet.google", "teams.microsoft", "webex", "calendar">>],
     [name |-> "Support", color |-> "grey",
      patterns |-> <<"service-now", "servicenow", "zendesk", "freshdesk", "support.",
                     "helpdesk">>],
     [name |-> "Social", color |-> "pink",
      patterns |-> <<"twitter.com", "x.com", "facebook.com", "linkedin.com",
                     "instagram.com", "discord.com", "slack.com">>],
     [name |-> "Shopping", color |-> "orange",
      patterns |-> <<"amazon.", "ebay.", "etsy.com", "apple.com/shop", "store.",
                     "checkout", "cart">>],
     [name |-> "Entertainment", color |-> "red",
      patterns |-> <<"youtube.com", "netflix.com", "spotify.com", "twitch.tv",
                     "hulu.com", "disneyplus.com">>],
     [name |-> "Search", color |-> "grey",
      patterns |-> <<"google.com/search", "bing.com/search", "duckduckgo.com">>] >>

\* category.patterns.some(pattern => url.toLowerCase().includes(pattern.toLowerCase())
\*                                  || domain.toLowerCase().includes(pattern.toLowerCase()))
autoMatches(category, url, domain) ==
  LET u == ToLowerCase(url)
      d == ToLowerCase(domain)
  IN  \E i \in 1..Len(category.patterns) :
        LET p == ToLowerCase(category.patterns[i])
        IN  Includes(u, p) \/ Includes(d, p)

\* A variant of the loop without the break: the last matching category wins
autoFirstMatch_LastWins(url, domain) ==
  IF \E c \in 1..Len(categoryDefinitions) :
       autoMatches(categoryDefinitions[c], url, domain)
  THEN CHOOSE c \in 1..Len(categoryDefinitions) :
         /\ autoMatches(categoryDefinitions[c], url, domain)
         /\ \A b \in (c + 1)..Len(categoryDefinitions) :
              ~autoMatches(categoryDefinitions[b], url, domain)
  ELSE 0

\* for (const category of categoryDefinitions) { if (matches) { ...; break; } }:
\* the index of the category the loop stops at, 0 when it runs to the end
autoFirstMatch(url, domain) ==
  IF \E c \in 1..Len(categoryDefinitions) :
       autoMatches(categoryDefinitions[c], url, domain)
  THEN CHOOSE c \in 1..Len(categoryDefinitions) :
         /\ autoMatches(categoryDefinitions[c], url, domain)
         /\ \A b \in 1..(c - 1) : ~autoMatches(categoryDefinitions[b], url, domain)
  ELSE 0

\* The loop's outcome for each page the browser can show, computed once
autoFirstMatchOf ==
  [k \in { <<p.url, p.domain>> : p \in Pages } |-> autoFirstMatch(k[1], k[2])]

\* urlMap / duplicateIds: a tab whose url is already a key of urlMap is a
\* duplicate, any other tab becomes the value stored under its url
RECURSIVE duplicateLoop(_, _, _)
duplicateLoop(tabs, urlMap, duplicateIds) ==
  IF Len(tabs) = 0 THEN duplicateIds
  ELSE LET t == Head(tabs)
       IN  IF t.url \in urlMap
           THEN duplicateLoop(Tail(tabs), urlMap, Append(duplicateIds, t.id))
           ELSE duplicateLoop(Tail(tabs), urlMap \cup {t.url}, duplicateIds)

\* A variant that keeps the last tab of each url instead of the first
findDuplicateIds_KeepsLast(tabs) ==
  LET marked == { i \in 1..Len(tabs) :
                    \E j \in (i + 1)..Len(tabs) : tabs[j].url = tabs[i].url }
      kept == SelectSeq(tabs, LAMBDA t : \E i \in marked : tabs[i].id = t.id)
  IN  [i \in 1..Len(kept) |-> kept[i].id]

findDuplicateIds(tabs) == duplicateLoop(tabs, {}, << >>)

\* Skip pinned tabs and extension pages
isSkipped(tab) ==
  tab.pinned \/ StartsWith(tab.url, "chrome://")
             \/ StartsWith(tab.url, "chrome-extension://")

\* categorizedTabs is an object: its entries are kept in the order in which
\* the keys were first assigned
pushCategorized(categorizedTabs, name, color, tab) ==
  IF \E i \in 1..Len(categorizedTabs) : categorizedTabs[i].name = name
  THEN [i \in 1..Len(categorizedTabs) |->
          IF categorizedTabs[i].name = name
          THEN [categorizedTabs[i] EXCEPT !.tabs = Append(@, tab)]
          ELSE categorizedTabs[i]]
  ELSE Append(categorizedTabs, [name |-> name, color |-> color, tabs |-> <<tab>>])

\* A variant of the assignment without the 'Other' fallback
assignTab_DropsUnmatched(categorizedTabs, tab) ==
  IF isSkipped(tab) THEN categorizedTabs
  ELSE LET c == autoFirstMatchOf[<<tab.url, tab.domain>>]
       IN  IF c # 0
           THEN pushCategorized(categorizedTabs, categoryDefinitions[c].name,
                                categoryDefinitions[c].color, tab)
           ELSE categorizedTabs

assignTab(categorizedTabs, tab) ==
  IF isSkipped(tab) THEN categorizedTabs
  ELSE LET c == autoFirstMatchOf[<<tab.url, tab.domain>>]
       IN  IF c # 0
           THEN pushCategorized(categorizedTabs, categoryDefinitions[c].name,
                                categoryDefinitions[c].color, tab)
           ELSE pushCategorized(categorizedTabs, "Other", "grey", tab)

RECURSIVE assignLoop(_, _)
assignLoop(tabsToProcess, categorizedTabs) ==
  IF Len(tabsToProcess) = 0 THEN categorizedTabs
  ELSE assignLoop(Tail(tabsToProcess), assignTab(categorizedTabs, Head(tabsToProcess)))

tabIdsOf(tabs) == [i \in 1..Len(tabs) |-> tabs[i].id]

titleLines(tabs) == Join([i \in 1..Len(tabs) |-> "- " \o tabs[i].title], "\n")

groupDescription(n, name) ==
  "Group " \o ToString(n) \o " tabs as \"" \o name \o "\""

closeDuplicatesCommand(duplicateIds) ==
  [action |-> "close_tabs", tabIds |-> duplicateIds,
   description |-> "Close " \o ToString(Len(duplicateIds)) \o " duplicate tabs"]

\* A variant that queues the group commands first
queueOrder_GroupsFirst(closeCommands, groupCommands) == groupCommands \o closeCommands

\* Queue close duplicates command first if requested, then all group commands
queueOrder(closeCommands, groupCommands) == closeCommands \o groupCommands

auto_organize_tabs(data, args) ==
  LET tabs == data.tabs
      closeDuplicates == Has(args, "closeDuplicates") /\ args.closeDuplicates
      duplicateIds == IF closeDuplicates THEN findDuplicateIds(tabs) ELSE << >>
      tabsToProcess ==
        IF closeDuplicates
        THEN SelectSeq(tabs, LAMBDA t : ~Contains(duplicateIds, t.id))
        ELSE tabs
      categorizedTabs == assignLoop(tabsToProcess, << >>)
      nonEmpty == SelectSeq(categorizedTabs, LAMBDA e : Len(e.tabs) > 0)
      groupCommands ==
        [i \in 1..Len(nonEmpty) |->
           [action |-> "create_group", tabIds |-> tabIdsOf(nonEmpty[i].tabs),
            groupName |-> nonEmpty[i].name, color |-> nonEmpty[i].color,
            description |-> groupDescription(Len(nonEmpty[i].tabs), nonEmpty[i].name)]]
      summary ==
        [i \in 1..Len(nonEmpty) |->
           nonEmpty[i].name \o ": " \o ToString(Len(nonEmpty[i].tabs)) \o " tabs"]
      closing == closeDuplicates /\ Len(duplicateIds) > 0
  IN  [commands |->
         queueOrder(IF closing THEN <<closeDuplicatesCommand(duplicateIds)>> ELSE << >>,
                    groupCommands),
       text |->
         IF Len(groupCommands) = 0
         THEN "No tabs to organize (all tabs are pinned or extension pages)."
         ELSE "Queued auto-organization:\n"
                \o (IF closing
                    THEN "- Close " \o ToString(Len(duplicateIds)) \o " duplicates\n"
                    ELSE "")
                \o "- Create " \o ToString(Len(groupCommands)) \o " tab groups:\n  "
                \o Join(summary, "\n  ") \o ClickExecute]

(***************************************************************************)
(* The other action handlers.  Each yields the commands it passes to       *)
(* writeCommand, in order, and the text it returns.                        *)
(***************************************************************************)
\* JavaScript truthiness of an argument: a missing property, "", 0 and false
\* are falsy
TruthyString(args, k) == Has(args, k) /\ args[k] # ""

TruthyNumber(args, k) == Has(args, k) /\ args[k] # 0

NoCommand(text) == [commands |-> << >>, text |-> text]

\* A variant of close_tabs that tries the domain before the id list
close_tabs_DomainFirst(data, args) ==
  LET tabs == data.tabs
      tabsToClose ==
        IF TruthyString(args, "domain")
        THEN SelectSeq(tabs, LAMBDA t : Includes(t.domain, ToLowerCase(args.domain)))
        ELSE IF Has(args, "tabIds") /\ Len(args.tabIds) > 0
        THEN SelectSeq(tabs, LAMBDA t : Contains(args.tabIds, t.id))
        ELSE IF TruthyString(args, "urlPattern")
        THEN SelectSeq(tabs, LAMBDA t :
               Includes(ToLowerCase(t.url), ToLowerCase(args.urlPattern)))
        ELSE << >>
  IN  IF Len(tabsToClose) = 0
      THEN NoCommand("No matching tabs found to close.")
      ELSE [commands |->
              << [action |-> "close_tabs", tabIds |-> tabIdsOf(tabsToClose),
                  description |-> "Close tabs"] >>,
            text |-> "Queued tabs for closing"]

close_tabs(data, args) ==
  LET tabs == data.tabs
      tabsToClose ==
        IF Has(args, "tabIds") /\ Len(args.tabIds) > 0
        THEN SelectSeq(tabs, LAMBDA t : Contains(args.tabIds, t.id))
        ELSE IF TruthyString(args, "domain")
        THEN SelectSeq(tabs, LAMBDA t : Includes(t.domain, ToLowerCase(args.domain)))
        ELSE IF TruthyString(args, "urlPattern")
        THEN SelectSeq(tabs, LAMBDA t :
               Includes(ToLowerCase(t.url), ToLowerCase(args.urlPattern)))
        ELSE << >>
      n == ToString(Len(tabsToClose))
  IN  IF Len(tabsToClose) = 0
      THEN NoCommand("No matching tabs found to close.")
      ELSE [commands |->
              << [action |-> "close_tabs", tabIds |-> tabIdsOf(tabsToClose),
                  description |-> "Close " \o n \o " tabs"] >>,
            text |-> "Queued " \o n \o " tabs for closing:\n"
                       \o titleLines(tabsToClose) \o ClickExecute]

close_duplicate_tabs(data, args) ==
  LET duplicateIds == findDuplicateIds(data.tabs)
  IN  IF Len(duplicateIds) = 0
      THEN NoCommand("No duplicate tabs found!")
      ELSE [commands |-> << closeDuplicatesCommand(duplicateIds) >>,
            text |-> "Queued " \o ToString(Len(duplicateIds))
                       \o " duplicate tabs for closing." \o ClickExecute]

create_tab_group(data, args) ==
  IF ~TruthyString(args, "name") \/ ~TruthyString(args, "domain")
  THEN NoCommand("Please provide both name and domain for the tab group.")
  ELSE
    LET matchingTabs ==
          SelectSeq(data.tabs, LAMBDA t : Includes(t.domain, ToLowerCase(args.domain)))
    IN  IF Len(matchingTabs) = 0
        THEN NoCommand("No tabs found matching domain \"" \o args.domain \o "\"")
        ELSE [commands |->
                << [action |-> "create_group", tabIds |-> tabIdsOf(matchingTabs),
                    groupName |-> args.name,
                    color |-> IF TruthyString(args, "color") THEN args.color ELSE "blue",
                    description |-> groupDescription(Len(matchingTabs), args.name)] >>,
              text |-> "Queued " \o ToString(Len(matchingTabs))
                         \o " tabs to be grouped as \"" \o args.name \o "\":\n"
                         \o titleLines(matchingTabs) \o ClickExecute]

\* Array.prototype.find: the index of the first element that satisfies Test,
\* 0 when there is none (find returns undefined)
FindIndex(s, Test(_)) ==
  IF \E i \in 1..Len(s) : Test(s[i])
  THEN CHOOSE i \in 1..Len(s) : Test(s[i]) /\ \A j \in 1..(i - 1) : ~Test(s[j])
  ELSE 0

\* A variant of focus_tab that tries the search before the id
focus_tab_SearchFirst(data, args) ==
  LET tabs == data.tabs
      target ==
        IF TruthyString(args, "search")
        THEN LET s == ToLowerCase(args.search)
             IN  FindIndex(tabs, LAMBDA t : Includes(ToLowerCase(t.title), s)
                                              \/ Includes(ToLowerCase(t.url), s))
        ELSE IF TruthyNumber(args, "tabId")
        THEN FindIndex(tabs, LAMBDA t : t.id = args.tabId)
        ELSE 0
  IN  IF target = 0
      THEN NoCommand("Tab not found.")
      ELSE [commands |->
              << [action |-> "focus_tab", tabId |-> tabs[target].id,
                  windowId |-> tabs[target].windowId,
                  description |-> "Focus: " \o tabs[target].title] >>,
            text |-> "Queued focus on: " \o tabs[target].title \o ClickExecute]

focus_tab(data, args) ==
  LET tabs == data.tabs
      target ==
        IF TruthyNumber(args, "tabId")
        THEN FindIndex(tabs, LAMBDA t : t.id = args.tabId)
        ELSE IF TruthyString(args, "search")
        THEN LET s == ToLowerCase(args.search)
             IN  FindIndex(tabs, LAMBDA t : Includes(ToLowerCase(t.title), s)
                                              \/ Includes(ToLowerCase(t.url), s))
        ELSE 0
  IN  IF target = 0
      THEN NoCommand("Tab not found.")
      ELSE [commands |->
              << [action |-> "focus_tab", tabId |-> tabs[target].id,
                  windowId |-> tabs[target].windowId,
                  description |-> "Focus: " \o tabs[target].title] >>,
            text |-> "Queued focus on: " \o tabs[target].title \o ClickExecute]

\* [...new Set(s)]: the distinct elements in order of first occurrence
Unique(s) ==
  LET firsts == SelectSeq([i \in 1..Len(s) |-> i],
                          LAMBDA i : \A j \in 1..(i - 1) : s[j] # s[i])
  IN  [k \in 1..Len(firsts) |-> s[firsts[k]]]

\* A variant of the test that takes every tab with a group id for grouped
isGrouped_AnyGroupId(t) == t.groupId # 0

\* t.groupId && t.groupId !== -1
isGrouped(t) == t.groupId # 0 /\ t.groupId # TAB_GROUP_ID_NONE

groupNameOf(groups, t) ==
  LET g == FindIndex(groups, LAMBDA group : group.id = t.groupId)
  IN  IF g = 0 THEN "Unknown"
      ELSE IF groups[g].title # "" THEN groups[g].title ELSE "Unnamed"

ungroup_all_tabs(data, args) ==
  LET groupedTabs == SelectSeq(data.tabs, isGrouped)
      groupNames ==
        Unique([i \in 1..Len(groupedTabs) |-> groupNameOf(data.groups, groupedTabs[i])])
      counts == ToString(Len(groupedTabs)) \o " tabs"
      from == " from " \o ToString(Len(groupNames)) \o " groups"
  IN  IF Len(groupedTabs) = 0
      THEN NoCommand("No tabs are currently in groups.")
      ELSE [commands |->
              << [action |-> "ungroup_tabs", tabIds |-> tabIdsOf(groupedTabs),
                  description |-> "Ungroup " \o counts \o from] >>,
            text |-> "Queued " \o counts \o " to be ungrouped" \o from \o ":\n- "
                       \o Join(groupNames, "\n- ")
                       \o "\n\nEmpty groups will be automatically removed."
                       \o ClickExecute]

\* A variant of the loop that copies shuffled[j] to shuffled[i] and leaves
\* shuffled[j] as it is
RECURSIVE shuffleLoop_CopiesOnly(_, _, _)
shuffleLoop_CopiesOnly(shuffled, i, rnd) ==
  IF i <= 0 THEN shuffled
  ELSE shuffleLoop_CopiesOnly([shuffled EXCEPT ![i + 1] = shuffled[rnd[i] + 1]],
                              i - 1, rnd)

\* Fisher-Yates: for (i = length - 1; i > 0; i--) swap shuffled[i] and
\* shuffled[j], j = floor(random() * (i + 1)); rnd[i] is the j drawn at i
RECURSIVE shuffleLoop(_, _, _)
shuffleLoop(shuffled, i, rnd) ==
  IF i <= 0 THEN shuffled
  ELSE LET j == rnd[i]
       IN  shuffleLoop([shuffled EXCEPT ![i + 1] = shuffled[j + 1],
                                        ![j + 1] = shuffled[i + 1]],
                       i - 1, rnd)

\* The draws Math.random() can produce for a list of n tabs
RandomDraws(n) ==
  { rnd \in [1..(n - 1) -> 0..(n - 1)] : \A i \in 1..(n - 1) : rnd[i] <= i }

isShufflable(t) ==
  ~t.pinned /\ ~StartsWith(t.url, "chrome://")
            /\ ~StartsWith(t.url, "chrome-extension://")

\* A variant of shuffle_tabs that also queues the shuffle of a single tab
shuffle_tabs_OneIsEnough(data, args, rnd) ==
  LET shufflableTabs == SelectSeq(data.tabs, isShufflable)
  IN  IF Len(shufflableTabs) < 1
      THEN NoCommand("Not enough tabs to shuffle.")
      ELSE [commands |->
              << [action |-> "shuffle_tabs",
                  moves |-> [k \in 1..Len(shufflableTabs) |->
                               [tabId |-> shufflableTabs[k].id,
                                windowId |-> shufflableTabs[k].windowId,
                                index |-> k - 1]],
                  description |-> "Shuffle tabs randomly"] >>,
            text |-> "Queued tabs to be shuffled randomly." \o ClickExecute]

shuffle_tabs(data, args, rnd) ==
  LET shufflableTabs == SelectSeq(data.tabs, isShufflable)
      shuffled == shuffleLoop(shufflableTabs, Len(shufflableTabs) - 1, rnd)
      n == ToString(Len(shufflableTabs))
  IN  IF Len(shufflableTabs) < 2
      THEN NoCommand("Not enough tabs to shuffle.")
      ELSE [commands |->
              << [action |-> "shuffle_tabs",
                  moves |-> [k \in 1..Len(shuffled) |->
                               [tabId |-> shuffled[k].id,
                                windowId |-> shuffled[k].windowId,
                                index |-> k - 1]],
                  description |-> "Shuffle " \o n \o " tabs randomly"] >>,
            text |-> "Queued " \o n \o " tabs to be shuffled randomly." \o ClickExecute]

(***************************************************************************)
(* The read-only tools.                                                    *)
(***************************************************************************)
formatAge(timestamp, t) ==
  LET diff == t - timestamp
      minutes == diff \div 60000
      hours == minutes \div 60
      days == hours \div 24
  IN  IF minutes < 1 THEN "just now"
      ELSE IF minutes < 60 THEN ToString(minutes) \o "m ago"
      ELSE IF hours < 24 THEN ToString(hours) \o "h ago"
      ELSE ToString(days) \o "d ago"

\* Array.prototype.sort is stable: the elements (records with a field key)
\* by ascending key, elements of equal key in their original order
RECURSIVE InsertByKey(_, _)
InsertByKey(sorted, x) ==
  IF Len(sorted) = 0 THEN <<x>>
  ELSE IF x.key < sorted[Len(sorted)].key
  THEN Append(InsertByKey(SubSeq(sorted, 1, Len(sorted) - 1), x), sorted[Len(sorted)])
  ELSE Append(sorted, x)

RECURSIVE SortByKey(_)
SortByKey(s) ==
  IF Len(s) = 0 THEN << >>
  ELSE InsertByKey(SortByKey(SubSeq(s, 1, Len(s) - 1)), s[Len(s)])

\* The keys of an object that is filled by obj[Key(x)] = ..., in insertion
\* order
KeysOf(s, Key(_)) == Unique([i \in 1..Len(s) |-> Key(s[i])])

\* The elements of s stored under key k
Under(s, Key(_), k) == SelectSeq(s, LAMBDA x : Key(x) = k)

UrlOf(t) == t.url

DomainOf(t) == t.domain

\* The two emoji of the list_tabs rendering
PushpinEmoji == "<U+1F4CC>"

SpeakerEmoji == "<U+1F50A>"

\* A variant of list_tabs that leaves a note of its call in the queue
list_tabs_LeavesNote(data, args, t) ==
  [commands |-> << [action |-> "focus_tab", tabId |-> 0, windowId |-> 0,
                    description |-> "listed"] >>,
   text |-> "Found " \o ToString(Len(data.tabs)) \o " tabs"]

list_tabs(data, args, t) ==
  LET byDomain ==
        IF TruthyString(args, "domain")
        THEN SelectSeq(data.tabs, LAMBDA x : Includes(x.domain, ToLowerCase(args.domain)))
        ELSE data.tabs
      filtered ==
        IF TruthyString(args, "search")
        THEN LET search == ToLowerCase(args.search)
             IN  SelectSeq(byDomain, LAMBDA x : Includes(ToLowerCase(x.title), search)
                                                  \/ Includes(ToLowerCase(x.url), search))
        ELSE byDomain
      output ==
        Join([i \in 1..Len(filtered) |->
                ToString(i) \o ". " \o filtered[i].title \o "\n   " \o filtered[i].url
                  \o "\n   [" \o filtered[i].domain \o "] "
                  \o (IF filtered[i].pinned THEN PushpinEmoji ELSE "") \o " "
                  \o (IF filtered[i].audible THEN SpeakerEmoji ELSE "")],
             "\n\n")
  IN  NoCommand("Found " \o ToString(Len(filtered)) \o " tabs (data from "
                  \o formatAge(data.timestamp, t) \o "):\n\n" \o output)

group_tabs_by_domain(data, args) ==
  LET domains == KeysOf(data.tabs, DomainOf)
      entries ==
        [i \in 1..Len(domains) |->
           [domain |-> domains[i],
            count |-> Len(Under(data.tabs, DomainOf, domains[i])),
            key |-> 0 - Len(Under(data.tabs, DomainOf, domains[i]))]]
      sorted == SortByKey(entries)
  IN  NoCommand("Tabs grouped by domain (" \o ToString(Len(domains))
                  \o " unique domains):\n\n"
                  \o Join([i \in 1..Len(sorted) |->
                             sorted[i].domain \o ": " \o ToString(sorted[i].count)
                               \o " tab" \o (IF sorted[i].count > 1 THEN "s" ELSE "")],
                          "\n"))

\* A variant of find_duplicate_tabs that shows the title of the last tab of
\* each url
find_duplicate_tabs_LastTitle(data, args) ==
  LET urls == KeysOf(data.tabs, UrlOf)
      dupUrls == SelectSeq(urls, LAMBDA u : Len(Under(data.tabs, UrlOf, u)) > 1)
      duplicates ==
        Join([i \in 1..Len(dupUrls) |->
                LET same == Under(data.tabs, UrlOf, dupUrls[i])
                IN  ToString(Len(same)) \o "x: " \o same[Len(same)].title
                      \o "\n   " \o dupUrls[i]],
             "\n\n")
  IN  IF duplicates = ""
      THEN NoCommand("No duplicate tabs found!")
      ELSE NoCommand("Found duplicate tabs:\n\n" \o duplicates)

find_duplicate_tabs(data, args) ==
  LET urls == KeysOf(data.tabs, UrlOf)
      dupUrls == SelectSeq(urls, LAMBDA u : Len(Under(data.tabs, UrlOf, u)) > 1)
      duplicates ==
        Join([i \in 1..Len(dupUrls) |->
                ToString(Len(Under(data.tabs, UrlOf, dupUrls[i]))) \o "x: "
                  \o Under(data.tabs, UrlOf, dupUrls[i])[1].title
                  \o "\n   " \o dupUrls[i]],
             "\n\n")
  IN  IF duplicates = ""
      THEN NoCommand("No duplicate tabs found!")
      ELSE NoCommand("Found duplicate tabs:\n\n" \o duplicates)

find_old_tabs(data, args, t) ==
  LET hours == IF TruthyNumber(args, "hours") THEN args.hours ELSE 24
      cutoff == t - (hours * 60 * 60 * 1000)
      old == SelectSeq(data.tabs, LAMBDA x : x.lastAccessed # 0 /\ x.lastAccessed < cutoff)
      sorted == SortByKey([i \in 1..Len(old) |->
                             [tab |-> old[i], key |-> old[i].lastAccessed]])
      oldTabs ==
        [i \in 1..Len(sorted) |->
           sorted[i].tab.title \o "\n   " \o sorted[i].tab.domain
             \o " - last accessed " \o formatAge(sorted[i].tab.lastAccessed, t)]
  IN  IF Len(oldTabs) = 0
      THEN NoCommand("No tabs older than " \o ToString(hours) \o " hours found.")
      ELSE NoCommand("Found " \o ToString(Len(oldTabs)) \o " tabs not accessed in "
                       \o ToString(hours) \o "+ hours:\n\n" \o Join(oldTabs, "\n\n"))

get_tab_stats(data, args, t) ==
  LET domains == { data.tabs[i].domain : i \in 1..Len(data.tabs) }
      pinnedCount == Len(SelectSeq(data.tabs, LAMBDA x : x.pinned))
      audibleCount == Len(SelectSeq(data.tabs, LAMBDA x : x.audible))
      groupedCount == Len(SelectSeq(data.tabs, isGrouped))
  IN  NoCommand("Tab Statistics (data from " \o formatAge(data.timestamp, t) \o "):"
                  \o "\n- Total tabs: " \o ToString(data.tabCount)
                  \o "\n- Windows: " \o ToString(data.windowCount)
                  \o "\n- Unique domains: " \o ToString(Cardinality(domains))
                  \o "\n- Pinned tabs: " \o ToString(pinnedCount)
                  \o "\n- Playing audio: " \o ToString(audibleCount)
                  \o "\n- In groups: " \o ToString(groupedCount)
                  \o "\n- Tab groups: " \o ToString(Len(data.groups)))

categories ==
  << [name |-> "Development",
      patterns |-> <<"github.com", "gitlab.com", "stackoverflow.com", "localhost",
                     "npmjs.com", "docs.", "developer.">>],
     [name |-> "Social",
      patterns |-> <<"twitter.com", "x.com", "facebook.com", "linkedin.com",
                     "instagram.com", "reddit.com", "discord.com">>],
     [name |-> "Communication",
      patterns |-> <<"mail.google.com", "outlook.", "slack.com",
                     "teams.microsoft.com", "zoom.us">>],
     [name |-> "Productivity",
      patterns |-> <<"notion.so", "docs.google.com", "sheets.google.com",
                     "drive.google.com", "trello.com", "asana.com", "jira.">>],
     [name |-> "Shopping",
      patterns |-> <<"amazon.", "ebay.", "etsy.com", "shop.", "store.">>],
     [name |-> "Entertainment",
      patterns |-> <<"youtube.com", "netflix.com", "spotify.com", "twitch.tv",
                     "hulu.com">>],
     [name |-> "News",
      patterns |-> <<"news.", "cnn.com", "bbc.", "nytimes.com", "theguardian.com",
                     "hackernews", "ycombinator.com">>],
     [name |-> "AI Tools",
      patterns |-> <<"claude.ai", "chat.openai.com", "chatgpt.com", "anthropic.com",
                     "huggingface.co">>] >>

\* patterns.some(p => tab.domain.includes(p) || tab.url.includes(p))
analysisMatches(category, url, domain) ==
  \E i \in 1..Len(category.patterns) :
    Includes(domain, category.patterns[i]) \/ Includes(url, category.patterns[i])

\* for (const [category, patterns] of Object.entries(categories)) { ...; break; }
analysisFirstMatch(url, domain) ==
  IF \E c \in 1..Len(categories) : analysisMatches(categories[c], url, domain)
  THEN CHOOSE c \in 1..Len(categories) :
         /\ analysisMatches(categories[c], url, domain)
         /\ \A b \in 1..(c - 1) : ~analysisMatches(categories[b], url, domain)
  ELSE 0

analysisFirstMatchOf ==
  [k \in { <<p.url, p.domain>> : p \in Pages } |-> analysisFirstMatch(k[1], k[2])]

\* The name of the bucket a tab is pushed to; "" stands for uncategorized
bucketOf(tab) ==
  LET c == analysisFirstMatchOf[<<tab.url, tab.domain>>]
  IN  IF c = 0 THEN "" ELSE categories[c].name

\* categorized: the buckets in the order in which they were first assigned
categorizedBuckets(tabs) ==
  LET names == SelectSeq(KeysOf(tabs, bucketOf), LAMBDA n : n # "")
  IN  [i \in 1..Len(names) |->
         [name |-> names[i], tabs |-> Under(tabs, bucketOf, names[i])]]

find_tabs_by_category(data, args) ==
  LET categorized == categorizedBuckets(data.tabs)
      uncategorized == Under(data.tabs, bucketOf, "")
      shown == SubSeq(uncategorized, 1,
                      IF Len(uncategorized) < 10 THEN Len(uncategorized) ELSE 10)
      output ==
        Join([i \in 1..Len(categorized) |->
                "\n" \o categorized[i].name \o " ("
                  \o ToString(Len(categorized[i].tabs)) \o "):\n"
                  \o Join([j \in 1..Len(categorized[i].tabs) |->
                             "  - " \o categorized[i].tabs[j].title \o "\n"], "")],
             "")
        \o (IF Len(uncategorized) > 0
            THEN "\nOther (" \o ToString(Len(uncategorized)) \o "):\n"
                   \o Join([j \in 1..Len(shown) |->
                              "  - " \o shown[j].title \o " [" \o shown[j].domain \o "]\n"],
                           "")
                   \o (IF Len(uncategorized) > 10
                       THEN "  ... and " \o ToString(Len(uncategorized) - 10) \o " more\n"
                       ELSE "")
            ELSE "")
  IN  NoCommand("Tabs by category:" \o output)

RECURSIVE Sum(_)
Sum(s) == IF Len(s) = 0 THEN 0 ELSE Head(s) + Sum(Tail(s))

suggest_tab_organization(data, args, t) ==
  LET tabs == data.tabs
      urls == KeysOf(tabs, UrlOf)
      urlCounts == [i \in 1..Len(urls) |-> Len(Under(tabs, UrlOf, urls[i]))]
      multiple == SelectSeq(urlCounts, LAMBDA c : c > 1)
      duplicateCount == Sum(multiple) - Len(multiple)
      domains == KeysOf(tabs, DomainOf)
      domainCounts ==
        [i \in 1..Len(domains) |->
           [domain |-> domains[i], count |-> Len(Under(tabs, DomainOf, domains[i]))]]
      largeClusters == SelectSeq(domainCounts, LAMBDA e : e.count >= 5)
      dayAgo == t - (24 * 60 * 60 * 1000)
      oldCount ==
        Len(SelectSeq(tabs, LAMBDA x : x.lastAccessed # 0 /\ x.lastAccessed < dayAgo))
      suggestions ==
        (IF duplicateCount > 0
         THEN <<"Close " \o ToString(duplicateCount) \o " duplicate tabs">> ELSE << >>)
        \o [i \in 1..Len(largeClusters) |->
              "Group " \o ToString(largeClusters[i].count) \o " tabs from "
                \o largeClusters[i].domain \o " together"]
        \o (IF data.tabCount > 50
            THEN <<"Consider closing some tabs - " \o ToString(data.tabCount)
                     \o " is a lot!">>
            ELSE << >>)
        \o (IF oldCount > 5
            THEN <<"Review " \o ToString(oldCount) \o " tabs not accessed in 24+ hours">>
            ELSE << >>)
  IN  IF Len(suggestions) > 0
      THEN NoCommand("Suggestions for organizing your " \o ToString(data.tabCount)
                       \o " tabs:\n\n"
                       \o Join([i \in 1..Len(suggestions) |->
                                  ToString(i) \o ". " \o suggestions[i]], "\n"))
      ELSE NoCommand("Your tabs look pretty well organized!")

contextKeywords(context) ==
  CASE context \in {"coding", "code"} ->
         <<"github", "stackoverflow", "docs", "localhost", "npm", "developer">>
    [] context = "research" ->
         <<"scholar", "arxiv", "wikipedia", "paper", "research", "docs">>
    [] context \in {"email", "emails"} -> <<"mail", "outlook", "gmail", "inbox">>
    [] context = "work" ->
         <<"jira", "confluence", "slack", "teams", "notion", "docs.google", "drive">>
    [] context \in {"meeting", "meetings"} ->
         <<"zoom", "meet.google", "teams", "calendar">>
    [] OTHER -> <<context>>

suggest_focus_tabs(data, args) ==
  LET context == IF Has(args, "context") THEN ToLowerCase(args.context) ELSE ""
      keywords == contextKeywords(context)
      relevantTabs ==
        IF context # ""
        THEN SelectSeq(data.tabs, LAMBDA x :
               \E k \in 1..Len(keywords) :
                 \/ Includes(x.domain, keywords[k])
                 \/ Includes(ToLowerCase(x.title), keywords[k])
                 \/ Includes(ToLowerCase(x.url), keywords[k]))
        ELSE data.tabs
      sorted == SortByKey([i \in 1..Len(relevantTabs) |->
                             [tab |-> relevantTabs[i],
                              key |-> 0 - relevantTabs[i].lastAccessed]])
      top == SubSeq(sorted, 1, IF Len(sorted) < 5 THEN Len(sorted) ELSE 5)
      output ==
        Join([i \in 1..Len(top) |->
                ToString(i) \o ". " \o top[i].tab.title \o "\n   " \o top[i].tab.url],
             "\n\n")
  IN  IF Len(top) = 0
      THEN NoCommand(IF context # ""
                     THEN "No tabs found related to \"" \o context
                            \o "\". Try a different context or sync your tabs again."
                     ELSE "Sync your tabs first to get focus suggestions.")
      ELSE NoCommand(IF context # ""
                     THEN "Top tabs for \"" \o context \o "\":\n\n" \o output
                     ELSE "Your most recently accessed tabs:\n\n" \o output)

(***************************************************************************)
(* The CallToolRequestSchema handler.                                      *)
(***************************************************************************)
CallTool(file, name, args, rnd, t) ==
  LET data == loadTabs(file)
  IN  IF data = Null THEN NoCommand(NoDataText)
      ELSE CASE name = "list_tabs" -> list_tabs(data, args, t)
             [] name = "group_tabs_by_domain" -> group_tabs_by_domain(data, args)
             [] name = "find_duplicate_tabs" -> find_duplicate_tabs(data, args)
             [] name = "find_old_tabs" -> find_old_tabs(data, args, t)
             [] name = "get_tab_stats" -> get_tab_stats(data, args, t)
             [] name = "find_tabs_by_category" -> find_tabs_by_category(data, args)
             [] name = "suggest_tab_organization" ->
                  suggest_tab_organization(data, args, t)
             [] name = "suggest_focus_tabs" -> suggest_focus_tabs(data, args)
             [] name = "close_tabs" -> close_tabs(data, args)
             [] name = "close_duplicate_tabs" -> close_duplicate_tabs(data, args)
             [] name = "create_tab_group" -> create_tab_group(data, args)
             [] name = "focus_tab" -> focus_tab(data, args)
             [] name = "auto_organize_tabs" -> auto_organize_tabs(data, args)
             [] name = "ungroup_all_tabs" -> ungroup_all_tabs(data, args)
             [] name = "shuffle_tabs" -> shuffle_tabs(data, args, rnd)
             [] OTHER -> NoCommand("Unknown tool: " \o name)

(***************************************************************************)
(* The requests the model sends.                                           *)
(***************************************************************************)
\* The objects with property k absent or set to one of the values vs
Opt(k, vs) == { NoArgs } \cup { k :> v : v \in vs }

CloseTabsArgs ==
  { a @@ b @@ c : a \in Opt("tabIds", { << >>, <<2, 9>> }),
                  b \in Opt("domain", { "GitHub.com" }),
                  c \in Opt("urlPattern", { "WATCH" }) }

\* enum: ['grey', 'blue', 'red', 'yellow', 'green', 'pink', 'purple', 'cyan', 'orange']
PaletteColors ==
  { "grey", "blue", "red", "yellow", "green", "pink", "purple", "cyan", "orange" }

CreateTabGroupArgs ==
  { a @@ b @@ c : a \in Opt("name", { "Work" }),
                  b \in Opt("domain", { "", "YouTube" }),
                  c \in Opt("color", { "red", "magenta" }) }

FocusTabArgs ==
  { a @@ b : a \in Opt("tabId", { 0, 2, 9 }), b \in Opt("search", { "VIDEO" }) }

AutoOrganizeArgs == Opt("closeDuplicates", BOOLEAN)

ListTabsArgs ==
  { a @@ b : a \in Opt("domain", { "GitHub" }), b \in Opt("search", { "video" }) }

FindOldTabsArgs == Opt("hours", { 1 })

SuggestFocusArgs == Opt("context", { "Coding", "zzz" })

ReadOnlyTools ==
  { "list_tabs", "group_tabs_by_domain", "find_duplicate_tabs", "find_old_tabs",
    "get_tab_stats", "find_tabs_by_category", "suggest_tab_organization",
    "suggest_focus_tabs" }

ActionTools ==
  { "close_tabs", "close_duplicate_tabs", "create_tab_group", "focus_tab",
    "auto_organize_tabs", "ungroup_all_tabs", "shuffle_tabs" }

ToolArgs(name) ==
  CASE name = "close_tabs" -> CloseTabsArgs
    [] name = "create_tab_group" -> CreateTabGroupArgs
    [] name = "focus_tab" -> FocusTabArgs
    [] name = "auto_organize_tabs" -> AutoOrganizeArgs
    [] name = "list_tabs" -> ListTabsArgs
    [] name = "find_old_tabs" -> FindOldTabsArgs
    [] name = "suggest_focus_tabs" -> SuggestFocusArgs
    [] OTHER -> { NoArgs }

(***************************************************************************)
(* The state machine.  last records the operation that has just run: for  *)
(* a tool call its name, arguments and returned text, the queue file as    *)
(* it was before the call and the number of commands the call wrote.  The  *)
(* server handles one request at a time: while last.op = "call" the        *)
(* response is on its way to the caller, and Respond delivers it.          *)
(***************************************************************************)
\* No executeCommands message is being handled.  Of a message in hand the
\* worker holds the batch (commands), the position of the loop (next), the
\* results pushed so far, and a record of what has happened: the commands
\* attempted, each with whether its chrome call rejected and the number of
\* results pushed before it, and how far the clear and the re-sync have got
IdleWorker ==
  [pc |-> "idle", commands |-> << >>, next |-> 1, results |-> << >>,
   attempted |-> << >>, clear |-> "no", sync |-> "no"]

\* No writeCommand call is in progress
IdleServer == [pc |-> "idle", file |-> [exists |-> FALSE, content |-> << >>],
               todo |-> << >>]

\* popup.js: let pendingCommands = []
ExtensionAtRest ==
  /\ pendingCommands = << >>
  /\ worker = IdleWorker
  /\ server = IdleServer

NoFile(empty) == [exists |-> FALSE, content |-> empty]

Op(op, name, args, text, before, queued) ==
  [op |-> op, name |-> name, args |-> args, text |-> text, before |-> before,
   queued |-> queued]

Init ==
  /\ tabsFile = NoFile(Null)
  /\ commandsFile = NoFile(<< >>)
  /\ now = StartTime
  /\ last = Op("idle", "", NoArgs, "", NoFile(<< >>), 0)
  /\ ExtensionAtRest

\* host, default branch: fs.writeFileSync(OUTPUT_FILE, message); the model
\* follows runs with one sync
SyncTabs ==
  /\ last.op # "call"
  /\ ~tabsFile.exists
  /\ \E pages \in PageLists :
       tabsFile' = [exists |-> TRUE, content |-> SnapshotOf(pages, now)]
  /\ last' = Op("idle", "", NoArgs, "", NoFile(<< >>), 0)
  /\ UNCHANGED <<commandsFile, now, extension>>

\* host, clear_commands
clearCommands(file) ==
  IF file.exists THEN [exists |-> TRUE, content |-> << >>] ELSE file

ClearCommands ==
  /\ last.op # "call"
  /\ commandsFile' = clearCommands(commandsFile)
  /\ last' = Op("idle", "", NoArgs, "", NoFile(<< >>), 0)
  /\ UNCHANGED <<tabsFile, now, extension>>

\* Time passes
Tick ==
  /\ last.op # "call"
  /\ now < StartTime + MaxClock
  /\ now' = now + 1
  /\ UNCHANGED <<tabsFile, commandsFile, last, extension>>

\* A command of the queue that was written after the model's start
QueuedSinceStart(c) == c.id >= StartTime

\* One request: the handler runs to its end, writeCommand calls included;
\* res is what the handler computes (the commands it writes and its text).
\* The model follows the server until it has queued MaxQueue commands and
\* the clock has advanced by MaxClock
Reply(name, args, res, dt) ==
  LET n == Len(res.commands)
      end == IF n > 1 THEN now + dt * (n - 1) ELSE now
  IN  /\ last.op # "call"
      /\ n > 0 => Len(SelectSeq(commandsFile.content, QueuedSinceStart)) < MaxQueue
      /\ end <= StartTime + MaxClock
      /\ IF n > 0 /\ ~Parses(commandsFile)
         THEN \* the first writeCommand throws at JSON.parse: nothing is
              \* written and the request ends with the error
              /\ last' = Op("call", name, args, JsonSyntaxError, commandsFile, 0)
              /\ UNCHANGED <<commandsFile, now>>
         ELSE /\ commandsFile' = writeCommands(commandsFile, res.commands, now, dt)
              /\ now' = end
              /\ last' = Op("call", name, args, res.text, commandsFile, n)
      /\ UNCHANGED <<tabsFile, extension>>

Request(name, args, rnd, dt) ==
  Reply(name, args, CallTool(tabsFile, name, args, rnd, now), dt)

ReadOnlyCall ==
  \E name \in ReadOnlyTools : \E args \in ToolArgs(name) :
    Request(name, args, << >>, 0)

ActionCall ==
  \E name \in ActionTools \ { "auto_organize_tabs", "shuffle_tabs" } :
    \E args \in ToolArgs(name) : Request(name, args, << >>, 0)

AutoOrganize ==
  \E args \in AutoOrganizeArgs : \E dt \in 0..1 :
    Request("auto_organize_tabs", args, << >>, dt)

Shuffle ==
  \E rnd \in RandomDraws(MaxTabs) : Request("shuffle_tabs", NoArgs, rnd, 0)

UnknownTool == Request("no_such_tool", NoArgs, << >>, 0)

\* The response reaches the caller
Respond ==
  /\ last.op = "call"
  /\ last' = Op("idle", "", NoArgs, "", NoFile(<< >>), 0)
  /\ UNCHANGED <<tabsFile, commandsFile, now, extension>>

Next ==
  \/ SyncTabs
  \/ ClearCommands
  \/ Tick
  \/ ReadOnlyCall
  \/ ActionCall
  \/ AutoOrganize
  \/ Shuffle
  \/ UnknownTool
  \/ Respond

Spec == Init /\ [][Next]_vars

(***************************************************************************)
(* One request against any files the server can find when it starts: no    *)
(* snapshot or any snapshot of at most MaxTabs tabs, and no queue file, an *)
(* empty queue or a queue that still holds a command of an earlier run.    *)
(***************************************************************************)
LeftoverCommand ==
  Stamp([action |-> "focus_tab", tabId |-> 1, windowId |-> 1,
         description |-> "Focus: Inbox"], StartTime - 1000)

InitTools ==
  /\ tabsFile \in { NoFile(Null) }
                    \cup { [exists |-> TRUE, content |-> SnapshotOf(pages, StartTime)] :
                             pages \in PageLists }
  /\ commandsFile \in { NoFile(<< >>),
                        [exists |-> TRUE, content |-> << >>],
                        [exists |-> TRUE, content |-> << LeftoverCommand >>] }
  /\ now = StartTime
  /\ last = Op("idle", "", NoArgs, "", NoFile(<< >>), 0)
  /\ ExtensionAtRest

NextTools ==
  \/ ReadOnlyCall
  \/ ActionCall
  \/ AutoOrganize
  \/ Shuffle
  \/ UnknownTool

SpecTools == InitTools /\ [][NextTools]_vars

(***************************************************************************)
(* The queue file as the server and the native host find it: missing,     *)
(* holding a command, or garbled.  The host answers get_commands with the  *)
(* pending commands it loads.                                              *)
(***************************************************************************)
\* host, loadCommands: [] for a missing file and, by the catch, for a file
\* that JSON.parse rejects
loadCommands(file) ==
  IF ~file.exists THEN << >>
  ELSE IF Parses(file) THEN file.content
  ELSE << >>

\* host, get_commands: last records the response
GetCommands ==
  /\ last.op = "idle"
  /\ last' = [op |-> "get_commands", before |-> commandsFile, success |-> TRUE,
               commands |-> SelectSeq(loadCommands(commandsFile),
                                      LAMBDA c : c.status = "pending")]
  /\ UNCHANGED <<tabsFile, commandsFile, now, extension>>

InitStorage ==
  /\ tabsFile \in { [exists |-> TRUE, content |-> SnapshotOf(pages, StartTime)] :
                      pages \in PageLists }
  /\ commandsFile \in { NoFile(<< >>), GarbledFile,
                        [exists |-> TRUE, content |-> << LeftoverCommand >>] }
  /\ now = StartTime
  /\ last = Op("idle", "", NoArgs, "", NoFile(<< >>), 0)
  /\ ExtensionAtRest

NextStorage ==
  \/ ActionCall
  \/ AutoOrganize
  \/ Shuffle
  \/ GetCommands

SpecStorage == InitStorage /\ [][NextStorage]_vars

(***************************************************************************)
(* suggest_tab_organization on the snapshot of a browser with many tabs:   *)
(* n1 tabs of one page followed by n2 tabs of another, the tabs of a page  *)
(* either all on one url or each on a url of its own.                      *)
(***************************************************************************)
\* The numbers of tabs of one page: around the cluster threshold (5) and,
\* two pages together, around the tab-count threshold (50)
BulkSizes == { 0, 1, 5, 6, 45 }

\* n tabs of a page
ManyOf(page, n, ownUrls) ==
  [i \in 1..n |->
     IF ownUrls THEN [page EXCEPT !.url = @ \o "#" \o ToString(i)] ELSE page]

BulkPageLists ==
  { ManyOf(p1, n1, ownUrls) \o ManyOf(p2, n2, ownUrls) :
      p1 \in Pages, p2 \in Pages, n1 \in BulkSizes, n2 \in BulkSizes,
      ownUrls \in BOOLEAN }

InitSuggest ==
  /\ tabsFile \in { [exists |-> TRUE, content |-> SnapshotOf(pages, StartTime)] :
                      pages \in BulkPageLists }
  /\ commandsFile = NoFile(<< >>)
  /\ now = StartTime
  /\ last = Op("idle", "", NoArgs, "", NoFile(<< >>), 0)
  /\ ExtensionAtRest

SuggestOrganization == Request("suggest_tab_organization", NoArgs, << >>, 0)

NextSuggest == SuggestOrganization

SpecSuggest == InitSuggest /\ [][NextSuggest]_vars

(***************************************************************************)
(* The extension: the popup (popup.js, kept here as src/unnamed/part_001)  *)
(* and the background script (src/extension/background.js), which reaches *)
(* the queue file through the native host, next to a server whose          *)
(* writeCommand reads the file and writes it back in two steps.  An        *)
(* executeCommands message is handled step by step: one step per command   *)
(* of the batch, then the clear, then the re-sync, then the response.      *)
(* Every chrome call and every native message may fail.                    *)
(***************************************************************************)
\* Records of a queue file left by another version of the server: a
\* command with an action the executor does not know, and a command that
\* is no longer pending
UnknownCommand ==
  Stamp([action |-> "reload_tab", tabId |-> 1, description |-> "Reload: Inbox"],
        StartTime - 3000)

DoneCommand ==
  [Stamp([action |-> "close_tabs", tabIds |-> <<1>>,
          description |-> "Close 1 tabs"], StartTime - 2000)
     EXCEPT !["status"] = "done"]

\* The tabs the browser shows when the extension takes a snapshot: two
\* tabs, neither pinned nor grouped
ShownPageLists ==
  { pages \in [1..2 -> Pages] :
      /\ pages[1].title = "Example Domain"
      /\ pages[2].title = "acme/store.js" }

isPending(c) == c.status = "pending"

\* host, get_commands: commands.filter(c => c.status === 'pending')
get_commands(file) == SelectSeq(loadCommands(file), isPending)

\* background.js fetchCommands under the getCommands branch of the
\* listener: response?.commands || [], and [] when the native message fails
fetchCommands(file, answered) ==
  IF answered THEN get_commands(file) ELSE << >>

\* The cases of the switch in executeCommands
KnownActions ==
  { "close_tabs", "create_group", "focus_tab", "ungroup_tabs", "shuffle_tabs" }

\* The condition under which a case calls chrome and pushes a result
hasWork(cmd) ==
  CASE cmd.action \in { "close_tabs", "create_group", "ungroup_tabs" } ->
         Has(cmd, "tabIds") /\ Len(cmd.tabIds) > 0
    [] cmd.action = "focus_tab" -> TruthyNumber(cmd, "tabId")
    [] cmd.action = "shuffle_tabs" -> Has(cmd, "moves") /\ Len(cmd.moves) > 0
    [] OTHER -> FALSE

successMessage(cmd) ==
  CASE cmd.action = "close_tabs" ->
         "Closed " \o ToString(Len(cmd.tabIds)) \o " tabs"
    [] cmd.action = "create_group" -> "Created group \"" \o cmd.groupName \o "\""
    [] cmd.action = "focus_tab" -> "Tab focused"
    [] cmd.action = "ungroup_tabs" ->
         "Ungrouped " \o ToString(Len(cmd.tabIds)) \o " tabs"
    [] OTHER -> "Shuffled " \o ToString(Len(cmd.moves)) \o " tabs"

\* error.message of a chrome call that rejects
ChromeError == "No tab with id"

\* The results one iteration of the loop pushes for a pending command;
\* rejects: a chrome call of its case rejects.  The moves of shuffle_tabs
\* have a catch of their own
executeCommand(cmd, rejects) ==
  IF cmd.action \notin KnownActions
  THEN << [id |-> cmd.id, success |-> FALSE,
           message |-> "Unknown action: " \o cmd.action] >>
  ELSE IF ~hasWork(cmd) THEN << >>
  ELSE IF rejects /\ cmd.action # "shuffle_tabs"
  THEN << [id |-> cmd.id, success |-> FALSE, message |-> ChromeError] >>
  ELSE << [id |-> cmd.id, success |-> TRUE, message |-> successMessage(cmd)] >>

\* popup.js, initial load: loadCommands() when the popup opens
OpenPopup ==
  /\ worker.pc = "idle"
  /\ \E answered \in BOOLEAN :
       pendingCommands' = fetchCommands(commandsFile, answered)
  /\ UNCHANGED <<tabsFile, commandsFile, now, last, worker, server>>

\* popup.js, executeBtn click: nothing with an empty list; the button is
\* disabled until the response arrives
ExecuteClick ==
  /\ worker.pc = "idle"
  /\ Len(pendingCommands) > 0
  /\ worker' = [IdleWorker EXCEPT !.pc = "executing",
                                  !.commands = pendingCommands]
  /\ UNCHANGED <<tabsFile, commandsFile, now, last, pendingCommands, server>>

\* A variant of the loop that gives up the batch when a command fails
ExecuteStep_StopsAtFailure ==
  /\ worker.pc = "executing"
  /\ worker.next <= Len(worker.commands)
  /\ \E rejects \in BOOLEAN :
       worker' =
            [worker EXCEPT
               !.next = IF Len(executeCommand(worker.commands[worker.next],
                                              rejects)) = 1
                           /\ ~executeCommand(worker.commands[worker.next],
                                              rejects)[1].success
                        THEN Len(worker.commands) + 1 ELSE @ + 1,
               !.results = @ \o executeCommand(worker.commands[worker.next],
                                               rejects),
               !.attempted = Append(@, [command |-> worker.commands[worker.next],
                                        rejected |-> rejects,
                                        resultsBefore |-> Len(worker.results)])]
  /\ UNCHANGED <<tabsFile, commandsFile, now, last, pendingCommands, server>>

\* executeCommands, one iteration of for (const cmd of commands)
ExecuteStep ==
  /\ worker.pc = "executing"
  /\ worker.next <= Len(worker.commands)
  /\ IF ~isPending(worker.commands[worker.next])
     THEN worker' = [worker EXCEPT !.next = @ + 1]
     ELSE \E rejects \in IF hasWork(worker.commands[worker.next])
                         THEN BOOLEAN ELSE { FALSE } :
            worker' =
              [worker EXCEPT
                 !.next = @ + 1,
                 !.results = @ \o executeCommand(worker.commands[worker.next],
                                                 rejects),
                 !.attempted =
                    Append(@, [command |-> worker.commands[worker.next],
                               rejected |-> rejects,
                               resultsBefore |-> Len(worker.results)])]
  /\ UNCHANGED <<tabsFile, commandsFile, now, last, pendingCommands, server>>

\* A variant of the listener that does not wait for executeCommands
RequestClear_AtOnce ==
  /\ worker.pc = "executing"
  /\ worker' = [worker EXCEPT !.pc = "clearing", !.clear = "requested"]
  /\ UNCHANGED <<tabsFile, commandsFile, now, last, pendingCommands, server>>

\* the listener, .then(async (results) => ...): executeCommands has
\* returned, clearCommands() sends clear_commands to the host
RequestClear ==
  /\ worker.pc = "executing"
  /\ worker.next > Len(worker.commands)
  /\ worker' = [worker EXCEPT !.pc = "clearing", !.clear = "requested"]
  /\ UNCHANGED <<tabsFile, commandsFile, now, last, pendingCommands, server>>

\* await clearCommands().catch(() => {}): the host clears the file, or the
\* native message fails; then syncTabs() is called
SettleClear ==
  /\ worker.pc = "clearing"
  /\ \E answered \in BOOLEAN :
       /\ commandsFile' = IF answered THEN clearCommands(commandsFile)
                          ELSE commandsFile
       /\ worker' = [worker EXCEPT
                       !.pc = "syncing",
                       !.clear = IF answered THEN "completed" ELSE "failed",
                       !.sync = "requested"]
  /\ UNCHANGED <<tabsFile, now, last, pendingCommands, server>>

\* await syncTabs().catch(() => {}): the host saves the snapshot, or a
\* chrome call or the native message fails
SettleSync ==
  /\ worker.pc = "syncing"
  /\ \/ /\ \E pages \in ShownPageLists :
             tabsFile' = [exists |-> TRUE, content |-> SnapshotOf(pages, now)]
        /\ worker' = [worker EXCEPT !.pc = "responding", !.sync = "completed"]
     \/ /\ worker' = [worker EXCEPT !.pc = "responding", !.sync = "failed"]
        /\ UNCHANGED tabsFile
  /\ UNCHANGED <<commandsFile, now, last, pendingCommands, server>>

\* sendResponse({ success: true, results }) and the popup's callback:
\* pendingCommands = []
SendResponse ==
  /\ worker.pc = "responding"
  /\ worker' = IdleWorker
  /\ pendingCommands' = << >>
  /\ UNCHANGED <<tabsFile, commandsFile, now, last, server>>

\* The server takes a request whose handler writes commands: res is what
\* the handler computes; the first writeCommand reads the queue file
StartWrites(res) ==
  /\ server.pc = "idle"
  /\ Len(res.commands) > 0
  /\ Len(SelectSeq(loadCommands(commandsFile), QueuedSinceStart)) < MaxQueue
  /\ server' = [pc |-> "writing", file |-> commandsFile, todo |-> res.commands]
  /\ UNCHANGED <<tabsFile, commandsFile, now, last, pendingCommands, worker>>

\* The requests that reach the server while the extension is at work
ExecuteRequests ==
  { [name |-> "close_tabs", args |-> "tabIds" :> <<2, 9>>],
    [name |-> "shuffle_tabs", args |-> NoArgs],
    [name |-> "auto_organize_tabs", args |-> NoArgs] }

ToolCall ==
  \E r \in ExecuteRequests : \E rnd \in RandomDraws(2) :
    StartWrites(CallTool(tabsFile, r.name, r.args, rnd, now))

\* writeCommand, second half: push the stamped command onto what was read
\* and write the whole file
WriteQueue ==
  /\ server.pc = "writing"
  /\ commandsFile' = writeCommand(server.file, Head(server.todo), now)
  /\ server' = IF Len(server.todo) = 1 THEN IdleServer
               ELSE [server EXCEPT !.pc = "reading", !.todo = Tail(@)]
  /\ UNCHANGED <<tabsFile, now, last, pendingCommands, worker>>

\* writeCommand, first half, for the next command of the same request
ReadQueue ==
  /\ server.pc = "reading"
  /\ server' = [server EXCEPT !.pc = "writing", !.file = commandsFile]
  /\ UNCHANGED <<tabsFile, commandsFile, now, last, pendingCommands, worker>>

InitExecute ==
  /\ tabsFile \in { [exists |-> TRUE, content |-> SnapshotOf(pages, StartTime)] :
                      pages \in ShownPageLists }
  /\ commandsFile \in
       { NoFile(<< >>),
         [exists |-> TRUE, content |-> << LeftoverCommand >>],
         [exists |-> TRUE,
          content |-> << UnknownCommand, DoneCommand, LeftoverCommand >>] }
  /\ now = StartTime
  /\ last = Op("idle", "", NoArgs, "", NoFile(<< >>), 0)
  /\ ExtensionAtRest

NextExecute ==
  \/ OpenPopup
  \/ ExecuteClick
  \/ ExecuteStep
  \/ RequestClear
  \/ SettleClear
  \/ SettleSync
  \/ SendResponse
  \/ ToolCall
  \/ WriteQueue
  \/ ReadQueue

\* The background script's continuations run once the call they wait for
\* has settled
WorkerStep ==
  ExecuteStep \/ RequestClear \/ SettleClear \/ SettleSync \/ SendResponse

SpecExecute == InitExecute /\ [][NextExecute]_vars

\* The same machine started on the queue of three records, with the
\* background script's steps scheduled fairly
InitExecuteFair ==
  /\ InitExecute
  /\ Len(commandsFile.content) = 3

SpecExecuteFair == InitExecuteFair /\ [][NextExecute]_vars /\ WF_vars(WorkerStep)

(***************************************************************************)
(* What the claims speak about.                                            *)
(***************************************************************************)
\* The request that has just been handled was a call of tool name
Called(name) == last.op = "call" /\ last.name = name

\* The snapshot's tabs
SnapshotTabs == tabsFile.content.tabs

\* The commands the request that has just been handled added to the queue
Queued ==
  SubSeq(commandsFile.content, Len(last.before.content) + 1,
         Len(commandsFile.content))

\* The tab ids a command names
CommandTabIds(c) ==
  IF "tabIds" \in DOMAIN c THEN { c.tabIds[i] : i \in 1..Len(c.tabIds) }
  ELSE IF "moves" \in DOMAIN c THEN { c.moves[i].tabId : i \in 1..Len(c.moves) }
  ELSE IF "tabId" \in DOMAIN c THEN { c.tabId }
  ELSE { }

\* A pinned tab or a tab showing a page of the browser itself
Protected(t) ==
  t.pinned \/ StartsWith(t.url, "chrome://") \/ StartsWith(t.url, "chrome-extension://")

\* The positions of the tabs that repeat the url of an earlier tab
LaterCopies(tabs) ==
  { i \in 1..Len(tabs) : \E j \in 1..(i - 1) : tabs[j].url = tabs[i].url }

CloseDuplicatesSet == Has(last.args, "closeDuplicates") /\ last.args.closeDuplicates

\* C1: no command that one auto_organize_tabs call queues names a pinned tab
\* or a tab whose url starts with chrome:// or chrome-extension://
C1_NoProtectedTabQueued ==
  (Called("auto_organize_tabs") /\ tabsFile.exists) =>
    \A k \in 1..Len(Queued) : \A i \in 1..Len(SnapshotTabs) :
      Protected(SnapshotTabs[i]) => SnapshotTabs[i].id \notin CommandTabIds(Queued[k])

\* C2: close_duplicate_tabs queues one close_tabs command that names exactly
\* the tabs repeating the url of an earlier tab, (number of tabs) - (number
\* of distinct urls) of them, and queues nothing when there is no such tab
C2_CloseDuplicatesKeepsFirst ==
  (Called("close_duplicate_tabs") /\ tabsFile.exists) =>
    LET tabs == SnapshotTabs
        later == LaterCopies(tabs)
        urls == { tabs[i].url : i \in 1..Len(tabs) }
    IN  IF Len(tabs) - Cardinality(urls) = 0
        THEN Len(Queued) = 0 /\ commandsFile = last.before
        ELSE /\ Len(Queued) = 1
             /\ Queued[1].action = "close_tabs"
             /\ Len(Queued[1].tabIds) = Len(tabs) - Cardinality(urls)
             /\ CommandTabIds(Queued[1]) = { tabs[i].id : i \in later }

C2_Witness ==
  /\ Called("close_duplicate_tabs")
  /\ tabsFile.exists
  /\ Len(SnapshotTabs) = 2
  /\ Len(Queued) = 1
  /\ Queued[1].tabIds = << SnapshotTabs[2].id >>

\* The earliest category of the auto-organize catalog with a pattern that the
\* tab's url or domain contains, 0 when there is none
AutoMatching(t) ==
  { c \in 1..Len(categoryDefinitions) : autoMatches(categoryDefinitions[c], t.url, t.domain) }

\* The same for the analysis catalog
AnalysisMatching(t) ==
  { c \in 1..Len(categories) : analysisMatches(categories[c], t.url, t.domain) }

Earliest(S) == IF S = { } THEN 0 ELSE CHOOSE c \in S : \A b \in S : c <= b

\* A tab auto_organize_tabs leaves out: a protected tab, or with
\* closeDuplicates a tab that repeats the url of an earlier tab
LeftOut(i) ==
  Protected(SnapshotTabs[i]) \/ (CloseDuplicatesSet /\ i \in LaterCopies(SnapshotTabs))

\* The create_group commands among the queued commands that name tab id
GroupsNaming(id) ==
  { k \in 1..Len(Queued) : Queued[k].action = "create_group"
                             /\ id \in CommandTabIds(Queued[k]) }

\* The number of times x occurs in the sequence s
Occurrences(s, x) == Cardinality({ i \in 1..Len(s) : s[i] = x })

\* C3: a tab that matches patterns of several catalog categories is placed
\* in the earliest of them and in no later one, wherever it stands in the
\* snapshot: by auto_organize_tabs in the create_group command of that
\* category, by find_tabs_by_category in the listing of that category
C3_FirstMatchWins ==
  /\ (Called("auto_organize_tabs") /\ tabsFile.exists) =>
       \A i \in 1..Len(SnapshotTabs) :
         LET t == SnapshotTabs[i]
             first == Earliest(AutoMatching(t))
         IN  (first # 0 /\ ~LeftOut(i)) =>
               /\ GroupsNaming(t.id) # { }
               /\ \A k \in GroupsNaming(t.id) :
                    Queued[k].groupName = categoryDefinitions[first].name
  /\ (Called("find_tabs_by_category") /\ tabsFile.exists) =>
       \A c \in 1..Len(categories) :
         LET n == Cardinality({ i \in 1..Len(SnapshotTabs) :
                                  Earliest(AnalysisMatching(SnapshotTabs[i])) = c })
             header == "\n" \o categories[c].name \o " ("
         IN  IF n > 0
             THEN Includes(last.text, header \o ToString(n) \o "):\n")
             ELSE ~Includes(last.text, header)

\* A tab matching three categories of each catalog stands second, and the
\* call has placed it
C3_Witness ==
  /\ tabsFile.exists
  /\ Len(SnapshotTabs) = 2
  /\ Cardinality(AutoMatching(SnapshotTabs[2])) >= 2
  /\ Cardinality(AnalysisMatching(SnapshotTabs[2])) >= 2
  /\ ~Protected(SnapshotTabs[2])
  /\ AutoMatching(SnapshotTabs[1]) = { }
  /\ \/ Called("auto_organize_tabs") /\ Len(Queued) = 2
     \/ Called("find_tabs_by_category") /\ Includes(last.text, "Development (1)")

\* C4: with no snapshot file every tool call returns the 'No tab data found'
\* advisory and leaves the command queue as it was; with a snapshot file,
\* also one with an empty tab list, no call returns that advisory
C4_MissingSnapshotAdvisory ==
  last.op = "call" =>
    IF tabsFile.exists
    THEN last.text # NoDataText
    ELSE /\ last.text = NoDataText
         /\ commandsFile = last.before
         /\ last.queued = 0

\* A tool that queues a command whenever it can has been called without a
\* snapshot file while the queue held a command
C4_Witness ==
  /\ Called("ungroup_all_tabs")
  /\ ~tabsFile.exists
  /\ Len(commandsFile.content) = 1
  /\ last.text = NoDataText

\* The positions of the tabs that the call that has just been handled
\* targets, by the tool's description of its arguments
TargetTabs ==
  LET tabs == SnapshotTabs
      a == last.args
      given(k) == k \in DOMAIN a /\ a[k] # ""
      all == 1..Len(tabs)
  IN  CASE last.name = "close_tabs" ->
             IF "tabIds" \in DOMAIN a /\ a.tabIds # << >>
             THEN { i \in all : \E k \in 1..Len(a.tabIds) : a.tabIds[k] = tabs[i].id }
             ELSE IF given("domain")
             THEN { i \in all : Includes(tabs[i].domain, ToLowerCase(a.domain)) }
             ELSE IF given("urlPattern")
             THEN { i \in all :
                      Includes(ToLowerCase(tabs[i].url), ToLowerCase(a.urlPattern)) }
             ELSE { }
        [] last.name = "close_duplicate_tabs" -> LaterCopies(tabs)
        [] last.name = "create_tab_group" ->
             IF given("name") /\ given("domain")
             THEN { i \in all : Includes(tabs[i].domain, ToLowerCase(a.domain)) }
             ELSE { }
        [] last.name = "focus_tab" ->
             IF "tabId" \in DOMAIN a /\ a.tabId # 0
             THEN { i \in all : tabs[i].id = a.tabId }
             ELSE IF given("search")
             THEN { i \in all :
                      \/ Includes(ToLowerCase(tabs[i].title), ToLowerCase(a.search))
                      \/ Includes(ToLowerCase(tabs[i].url), ToLowerCase(a.search)) }
             ELSE { }
        [] last.name = "ungroup_all_tabs" ->
             { i \in all : tabs[i].groupId \notin { 0, TAB_GROUP_ID_NONE } }
        [] last.name = "shuffle_tabs" -> { i \in all : ~Protected(tabs[i]) }
        [] OTHER -> { }

SingleCommandTools ==
  { "close_tabs", "close_duplicate_tabs", "create_tab_group", "focus_tab",
    "ungroup_all_tabs", "shuffle_tabs" }

\* C5: a call of close_tabs, close_duplicate_tabs, create_tab_group,
\* focus_tab, ungroup_all_tabs or shuffle_tabs adds exactly one command to the
\* queue when its target tab set is not empty (has at least 2 tabs for
\* shuffle_tabs) and adds none otherwise
C5_OneCommandIffTarget ==
  (last.op = "call" /\ last.name \in SingleCommandTools /\ tabsFile.exists) =>
    LET least == IF last.name = "shuffle_tabs" THEN 2 ELSE 1
        grown == Len(commandsFile.content) - Len(last.before.content)
    IN  /\ grown = (IF Cardinality(TargetTabs) >= least THEN 1 ELSE 0)
        /\ last.queued = grown
        /\ grown = 1 => /\ CommandTabIds(Queued[1]) # { }
                        /\ CommandTabIds(Queued[1]) \subseteq
                             { SnapshotTabs[i].id : i \in TargetTabs }

\* shuffle_tabs has been called on a snapshot with a single tab that may be
\* shuffled and has queued nothing
C5_Witness ==
  /\ Called("shuffle_tabs")
  /\ tabsFile.exists
  /\ Cardinality(TargetTabs) = 1
  /\ Len(SnapshotTabs) = 2
  /\ Queued = << >>

\* C6: the commands in the queue have pairwise distinct ids, and the ids
\* never decrease along the queue, also among the commands that one
\* auto_organize_tabs call queues
C6_IdsDistinctAndOrdered ==
  \A i, j \in 1..Len(commandsFile.content) :
    i < j => /\ commandsFile.content[i].id # commandsFile.content[j].id
             /\ commandsFile.content[i].id <= commandsFile.content[j].id

\* C7: a tool call leaves the records that were in the queue before it
\* unchanged and in place, and each command it queues is one new record at
\* the end with status 'pending'
C7_QueueAppendOnly ==
  last.op = "call" =>
    LET before == last.before.content
        after == commandsFile.content
    IN  /\ Len(after) = Len(before) + last.queued
        /\ SubSeq(after, 1, Len(before)) = before
        /\ \A k \in (Len(before) + 1)..Len(after) : after[k].status = "pending"

\* auto_organize_tabs has queued two commands behind a command that was
\* already in the queue
C7_Witness ==
  /\ Called("auto_organize_tabs")
  /\ last.before.content = << LeftoverCommand >>
  /\ Len(commandsFile.content) = 3

\* The place of a group name in the catalog, 'Other' behind the catalog
CatalogPlace(name) ==
  IF \E c \in 1..Len(categoryDefinitions) : categoryDefinitions[c].name = name
  THEN CHOOSE c \in 1..Len(categoryDefinitions) : categoryDefinitions[c].name = name
  ELSE Len(categoryDefinitions) + 1

\* The create_group commands of the call that has just been handled
QueuedGroups == SelectSeq(Queued, LAMBDA c : c.action = "create_group")

\* C8: the create_group commands of one auto_organize_tabs call have
\* pairwise different group names and stand in the queue in the order of the
\* catalog (Other last), whatever the order of the tabs
C8_GroupsInCatalogOrder ==
  (Called("auto_organize_tabs") /\ tabsFile.exists) =>
    \A i, j \in 1..Len(QueuedGroups) :
      i < j => CatalogPlace(QueuedGroups[i].groupName)
                 < CatalogPlace(QueuedGroups[j].groupName)

\* C9: auto_organize_tabs with closeDuplicates on a snapshot with repeated
\* urls queues the close_tabs command in front of all its create_group
\* commands, and no create_group command names a tab the close_tabs command
\* names
C9_CloseBeforeGroups ==
  (Called("auto_organize_tabs") /\ tabsFile.exists /\ CloseDuplicatesSet
     /\ LaterCopies(SnapshotTabs) # { }) =>
    /\ Len(Queued) >= 1
    /\ Queued[1].action = "close_tabs"
    /\ \A k \in 2..Len(Queued) :
         /\ Queued[k].action = "create_group"
         /\ CommandTabIds(Queued[k]) \cap CommandTabIds(Queued[1]) = { }

\* The call has queued a close_tabs command and a create_group command
C9_Witness ==
  /\ Called("auto_organize_tabs")
  /\ tabsFile.exists
  /\ CloseDuplicatesSet
  /\ LaterCopies(SnapshotTabs) # { }
  /\ Len(Queued) = 2
  /\ Queued[2].action = "create_group"

\* C10: every tab that is not protected and, with closeDuplicates, does not
\* repeat an earlier url is named once by exactly one create_group command
\* of one auto_organize_tabs call, by the 'Other' command when it matches no
\* category; no tab id is named by two create_group commands
C10_EachEligibleTabInOneGroup ==
  (Called("auto_organize_tabs") /\ tabsFile.exists) =>
    /\ \A i \in 1..Len(SnapshotTabs) :
         LET t == SnapshotTabs[i]
             naming == { k \in 1..Len(QueuedGroups) :
                           Contains(QueuedGroups[k].tabIds, t.id) }
         IN  ~LeftOut(i) =>
               /\ Cardinality(naming) = 1
               /\ \A k \in naming :
                    /\ Occurrences(QueuedGroups[k].tabIds, t.id) = 1
                    /\ AutoMatching(t) = { } => QueuedGroups[k].groupName = "Other"
    /\ \A k, l \in 1..Len(QueuedGroups) :
         k # l => CommandTabIds(QueuedGroups[k]) \cap CommandTabIds(QueuedGroups[l]) = { }

\* A tab that matches no category and a tab that matches one have been put
\* in two groups
C10_Witness ==
  /\ Called("auto_organize_tabs")
  /\ tabsFile.exists
  /\ Len(QueuedGroups) = 2
  /\ \E k \in 1..2 : QueuedGroups[k].groupName = "Other"

\* The ids of the tabs that shuffle_tabs may move
EligibleIds == { SnapshotTabs[i].id : i \in { j \in 1..Len(SnapshotTabs) :
                                                ~Protected(SnapshotTabs[j]) } }

\* C11: shuffle_tabs on a snapshot with N >= 2 tabs that are neither pinned
\* nor internal queues one shuffle_tabs command with N moves that name every
\* such tab once and use every index of 0..N-1 once; with fewer than 2 such
\* tabs it queues nothing
C11_ShuffleIsPermutation ==
  (Called("shuffle_tabs") /\ tabsFile.exists) =>
    LET N == Cardinality(EligibleIds)
    IN  IF N >= 2
        THEN /\ Len(Queued) = 1
             /\ Queued[1].action = "shuffle_tabs"
             /\ Len(Queued[1].moves) = N
             /\ { Queued[1].moves[k].tabId : k \in 1..N } = EligibleIds
             /\ { Queued[1].moves[k].index : k \in 1..N } = 0..(N - 1)
        ELSE Queued = << >>

\* The shuffle has exchanged the first and the last tab
C11_Witness ==
  /\ Called("shuffle_tabs")
  /\ tabsFile.exists
  /\ Cardinality(EligibleIds) >= 2
  /\ Len(Queued) = 1
  /\ Queued[1].moves[1].tabId = SnapshotTabs[Len(SnapshotTabs)].id

\* The snapshot's tabs whose domain contains the lower-cased text
DomainMatches(text) ==
  SelectSeq(SnapshotTabs, LAMBDA t : Includes(t.domain, ToLowerCase(text)))

\* C12: create_tab_group queues nothing without a name or a domain;
\* otherwise its create_group command names exactly the tabs whose domain
\* contains the lower-cased domain argument, and its color is the color
\* argument when that is a palette color and 'blue' when the argument is
\* absent or no palette color
C12_CreateGroupDefaults ==
  (Called("create_tab_group") /\ tabsFile.exists) =>
    LET a == last.args
        given(k) == k \in DOMAIN a /\ a[k] # ""
    IN  IF ~(given("name") /\ given("domain")) THEN Queued = << >>
        ELSE IF DomainMatches(a.domain) = << >> THEN Queued = << >>
        ELSE /\ Len(Queued) = 1
             /\ Queued[1].action = "create_group"
             /\ Queued[1].tabIds =
                  [i \in 1..Len(DomainMatches(a.domain)) |-> DomainMatches(a.domain)[i].id]
             /\ Queued[1].groupName = a.name
             /\ Queued[1].color =
                  (IF given("color") /\ a.color \in PaletteColors THEN a.color ELSE "blue")

\* The ids of the tabs of a list, in the order of the list
IdsOf(tabs) == [i \in 1..Len(tabs) |-> tabs[i].id]

\* The tabs that the selector of a close_tabs call selects: a non-empty id
\* list before the domain, the domain before the url pattern
SelectedForClosing ==
  LET a == last.args
      given(k) == k \in DOMAIN a /\ a[k] # ""
  IN  IF "tabIds" \in DOMAIN a /\ Len(a.tabIds) > 0
      THEN SelectSeq(SnapshotTabs,
                     LAMBDA t : \E k \in 1..Len(a.tabIds) : a.tabIds[k] = t.id)
      ELSE IF given("domain") THEN DomainMatches(a.domain)
      ELSE IF given("urlPattern")
      THEN SelectSeq(SnapshotTabs, LAMBDA t :
             Includes(ToLowerCase(t.url), ToLowerCase(a.urlPattern)))
      ELSE << >>

\* C13: close_tabs uses one selector: a non-empty tabIds list if given
\* (domain and urlPattern are then ignored), else the domain if given, else
\* the urlPattern; its close_tabs command names exactly the tabs that
\* selector selects, and nothing is queued when it selects none
C13_CloseTabsSelectorPriority ==
  (Called("close_tabs") /\ tabsFile.exists) =>
    IF SelectedForClosing = << >> THEN Queued = << >>
    ELSE /\ Len(Queued) = 1
         /\ Queued[1].action = "close_tabs"
         /\ Queued[1].tabIds = IdsOf(SelectedForClosing)

\* All three selectors were given, the id list and the domain select
\* different tabs, and the command names the tab of the id list
C13_Witness ==
  /\ Called("close_tabs")
  /\ tabsFile.exists
  /\ DOMAIN last.args = { "tabIds", "domain", "urlPattern" }
  /\ Len(last.args.tabIds) > 0
  /\ DomainMatches(last.args.domain) # << >>
  /\ DomainMatches(last.args.domain) # SelectedForClosing
  /\ Len(Queued) = 1
  /\ Queued[1].tabIds = IdsOf(SelectedForClosing)

\* The least element of a set of positions, 0 for the empty set
FirstOf(S) == IF S = { } THEN 0 ELSE CHOOSE i \in S : \A j \in S : i <= j

\* The position of the tab a focus_tab call is aimed at, 0 when there is
\* none.  A tab id is a positive number: 0 is no id
FocusTarget ==
  LET a == last.args
      all == 1..Len(SnapshotTabs)
  IN  IF "tabId" \in DOMAIN a /\ a.tabId # 0
      THEN FirstOf({ i \in all : SnapshotTabs[i].id = a.tabId })
      ELSE IF "search" \in DOMAIN a /\ a.search # ""
      THEN FirstOf({ i \in all :
                       \/ Includes(ToLowerCase(SnapshotTabs[i].title),
                                   ToLowerCase(a.search))
                       \/ Includes(ToLowerCase(SnapshotTabs[i].url),
                                   ToLowerCase(a.search)) })
      ELSE 0

\* C14: focus_tab aims at the tab with the given id whenever an id is
\* given, and otherwise at the first tab of the snapshot whose title or url
\* contains the lower-cased search text; its focus_tab command carries the
\* id and the window id of that tab, and nothing is queued without a target
C14_FocusTabResolution ==
  (Called("focus_tab") /\ tabsFile.exists) =>
    IF FocusTarget = 0 THEN Queued = << >>
    ELSE /\ Len(Queued) = 1
         /\ Queued[1].action = "focus_tab"
         /\ Queued[1].tabId = SnapshotTabs[FocusTarget].id
         /\ Queued[1].windowId = SnapshotTabs[FocusTarget].windowId

\* An id and a search text were given, the search text is found in the
\* first tab, and the command names the second tab, the one with the id
C14_Witness ==
  /\ Called("focus_tab")
  /\ tabsFile.exists
  /\ Len(SnapshotTabs) = 2
  /\ DOMAIN last.args = { "tabId", "search" }
  /\ last.args.tabId = 2
  /\ Includes(ToLowerCase(SnapshotTabs[1].title), ToLowerCase(last.args.search))
  /\ Len(Queued) = 1
  /\ Queued[1].tabId = 2

\* The categories of a catalog with a pattern that the tab's url or domain
\* contains when both sides are written in lower case
FoldedMatching(catalog, t) ==
  { c \in 1..Len(catalog) :
      \E k \in 1..Len(catalog[c].patterns) :
        \/ Includes(ToLowerCase(t.url), ToLowerCase(catalog[c].patterns[k]))
        \/ Includes(ToLowerCase(t.domain), ToLowerCase(catalog[c].patterns[k])) }

\* C15: both classifiers match without regard to letter case: auto_organize_tabs
\* groups a tab, and find_tabs_by_category lists a tab, under the earliest
\* category with a pattern that the tab's url or domain contains when both
\* are written in lower case
C15_MatchingIgnoresCase ==
  /\ (Called("auto_organize_tabs") /\ tabsFile.exists) =>
       \A i \in 1..Len(SnapshotTabs) :
         LET t == SnapshotTabs[i]
             c == FirstOf(FoldedMatching(categoryDefinitions, t))
         IN  ~LeftOut(i) =>
               \A k \in GroupsNaming(t.id) :
                 Queued[k].groupName =
                   (IF c = 0 THEN "Other" ELSE categoryDefinitions[c].name)
  /\ (Called("find_tabs_by_category") /\ tabsFile.exists) =>
       \A c \in 1..Len(categories) :
         LET n == Cardinality({ i \in 1..Len(SnapshotTabs) :
                                  FirstOf(FoldedMatching(categories, SnapshotTabs[i])) = c })
             header == "\n" \o categories[c].name \o " ("
         IN  IF n > 0
             THEN Includes(last.text, header \o ToString(n) \o "):\n")
             ELSE ~Includes(last.text, header)

\* The positions of the snapshot's tabs with url u
TabsWithUrl(u) == { i \in 1..Len(SnapshotTabs) : SnapshotTabs[i].url = u }

SnapshotUrls == { SnapshotTabs[i].url : i \in 1..Len(SnapshotTabs) }

\* C16: find_duplicate_tabs shows an entry for a url exactly when at least
\* 2 tabs have that url; the entry shows the number of tabs with that url
\* and the title of the first of them; when no url is shared it reports that
\* no duplicates were found
C16_DuplicateReport ==
  (Called("find_duplicate_tabs") /\ tabsFile.exists) =>
    /\ \A u \in SnapshotUrls :
         LET n == Cardinality(TabsWithUrl(u))
             first == SnapshotTabs[FirstOf(TabsWithUrl(u))]
         IN  IF n >= 2
             THEN Includes(last.text,
                           ToString(n) \o "x: " \o first.title \o "\n   " \o u)
             ELSE ~Includes(last.text, "\n   " \o u)
    /\ (\A u \in SnapshotUrls : Cardinality(TabsWithUrl(u)) < 2)
         <=> last.text = "No duplicate tabs found!"
    /\ last.queued = 0

\* Two tabs with different titles show the same url, and the report has an
\* entry for it
C16_Witness ==
  /\ Called("find_duplicate_tabs")
  /\ tabsFile.exists
  /\ Len(SnapshotTabs) = 2
  /\ SnapshotTabs[1].url = SnapshotTabs[2].url
  /\ SnapshotTabs[1].title # SnapshotTabs[2].title
  /\ Includes(last.text, "2x: " \o SnapshotTabs[1].title)

\* D: the tabs whose url occurs more than once, less the urls that occur
\* more than once
ExcessDuplicates ==
  Cardinality({ i \in 1..Len(SnapshotTabs) :
                  Cardinality(TabsWithUrl(SnapshotTabs[i].url)) > 1 })
    - Cardinality({ u \in SnapshotUrls : Cardinality(TabsWithUrl(u)) > 1 })

TabsOfDomain(d) == { i \in 1..Len(SnapshotTabs) : SnapshotTabs[i].domain = d }

\* The domains with at least 5 tabs
LargeDomains ==
  { d \in { SnapshotTabs[i].domain : i \in 1..Len(SnapshotTabs) } :
      Cardinality(TabsOfDomain(d)) >= 5 }

\* The ways to list the large domains by descending number of tabs
DescendingOrders ==
  { f \in [1..Cardinality(LargeDomains) -> LargeDomains] :
      /\ \A i, j \in DOMAIN f : i # j => f[i] # f[j]
      /\ \A i, j \in DOMAIN f :
           i < j => Cardinality(TabsOfDomain(f[i])) >= Cardinality(TabsOfDomain(f[j])) }

\* The tabs last accessed more than 24 hours before now (lastAccessed 0
\* stands for a tab without a time of last access)
StaleTabs ==
  { i \in 1..Len(SnapshotTabs) :
      /\ SnapshotTabs[i].lastAccessed # 0
      /\ SnapshotTabs[i].lastAccessed < now - 24 * 60 * 60 * 1000 }

\* The suggestions in the fixed order (a) (b) (c) (d), the grouping
\* suggestions in the order f
SuggestionsInOrder(f) ==
  (IF ExcessDuplicates > 0
   THEN << "Close " \o ToString(ExcessDuplicates) \o " duplicate tabs" >> ELSE << >>)
  \o [i \in DOMAIN f |->
        "Group " \o ToString(Cardinality(TabsOfDomain(f[i]))) \o " tabs from "
          \o f[i] \o " together"]
  \o (IF Len(SnapshotTabs) > 50
      THEN << "Consider closing some tabs - " \o ToString(Len(SnapshotTabs))
                \o " is a lot!" >>
      ELSE << >>)
  \o (IF Cardinality(StaleTabs) > 5
      THEN << "Review " \o ToString(Cardinality(StaleTabs))
                \o " tabs not accessed in 24+ hours" >>
      ELSE << >>)

SuggestionText(suggestions) ==
  IF suggestions = << >> THEN "Your tabs look pretty well organized!"
  ELSE "Suggestions for organizing your " \o ToString(Len(SnapshotTabs))
         \o " tabs:\n\n"
         \o Join([i \in 1..Len(suggestions) |-> ToString(i) \o ". " \o suggestions[i]],
                 "\n")

\* C17: suggest_tab_organization lists, in this order, the closing of the D
\* excess duplicates if D > 0, one grouping suggestion per domain with at
\* least 5 tabs by descending number of tabs, the reduction of the tab count
\* if it exceeds 50, and the review of stale tabs if more than 5 tabs are
\* stale; without any suggestion it returns the 'well organized' message
C17_SuggestionOrder ==
  (Called("suggest_tab_organization") /\ tabsFile.exists) =>
    \E f \in DescendingOrders : last.text = SuggestionText(SuggestionsInOrder(f))

\* The snapshot's tabs whose group id is not the sentinel of ungrouped tabs
GroupedTabs == SelectSeq(SnapshotTabs, LAMBDA t : t.groupId # TAB_GROUP_ID_NONE)

\* C18: ungroup_all_tabs queues a single ungroup_tabs command that names
\* exactly the tabs whose group id is not -1 (and nothing when there is no
\* such tab), and get_tab_stats shows the number of these tabs as 'In groups'
C18_GroupedTabs ==
  /\ (Called("ungroup_all_tabs") /\ tabsFile.exists) =>
       IF GroupedTabs = << >> THEN Queued = << >>
       ELSE /\ Len(Queued) = 1
            /\ Queued[1].action = "ungroup_tabs"
            /\ Queued[1].tabIds = IdsOf(GroupedTabs)
  /\ (Called("get_tab_stats") /\ tabsFile.exists) =>
       Includes(last.text, "\n- In groups: " \o ToString(Len(GroupedTabs)) \o "\n")

\* The snapshot has a tab in a group behind a tab in no group, and the
\* command names the grouped tab alone
C18_Witness ==
  /\ Called("ungroup_all_tabs")
  /\ tabsFile.exists
  /\ Len(SnapshotTabs) = 2
  /\ Len(GroupedTabs) = 1
  /\ Len(Queued) = 1
  /\ Queued[1].tabIds = << 2 >>

\* C19: a read-only tool called again with the same arguments, on the same
\* snapshot and at the same time, returns the result it has just returned;
\* its call changes neither the snapshot file nor the command queue
C19_ReadOnlyIdempotent ==
  /\ [](  (last.op = "call" /\ last.name \in ReadOnlyTools) =>
            /\ CallTool(tabsFile, last.name, last.args, << >>, now)
                 = [commands |-> << >>, text |-> last.text]
            /\ commandsFile = last.before
            /\ last.queued = 0)
  /\ [][ (last'.op = "call" /\ last'.name \in ReadOnlyTools) =>
           /\ tabsFile' = tabsFile
           /\ commandsFile' = commandsFile
           /\ now' = now ]_vars

\* suggest_focus_tabs has been called on a snapshot whose second tab was
\* accessed last, has listed that tab first, and the queue holds the one
\* command it held before
C19_Witness ==
  /\ Called("suggest_focus_tabs")
  /\ tabsFile.exists
  /\ Len(SnapshotTabs) = 2
  /\ SnapshotTabs[1].lastAccessed < SnapshotTabs[2].lastAccessed
  /\ Includes(last.text, "1. " \o SnapshotTabs[2].title)
  /\ commandsFile.content = << LeftoverCommand >>

\* The request that has just been handled has commands to write
WouldQueue ==
  CallTool(tabsFile, last.name, last.args, [i \in 1..MaxTabs |-> 0], now).commands
    # << >>

\* C20: a queue file that exists and cannot be parsed is never taken for an
\* empty queue: a tool call that has a command to append ends with the
\* error and leaves the file alone, and the host's get_commands answers
\* with a failure; a missing queue file is taken for an empty queue
C20_GarbledQueueIsReported ==
  /\ (last.op = "call" /\ ~Parses(last.before) /\ WouldQueue) =>
       /\ last.text = JsonSyntaxError
       /\ commandsFile = last.before
  /\ (last.op = "call" /\ ~last.before.exists /\ WouldQueue) =>
       /\ last.text # JsonSyntaxError
       /\ Len(commandsFile.content) = last.queued
       /\ last.queued > 0
  /\ (last.op = "get_commands" /\ ~Parses(last.before)) => ~last.success
  /\ (last.op = "get_commands" /\ ~last.before.exists) =>
       last.success /\ last.commands = << >>

\* The commands the executor has attempted of the batch in hand, in the
\* order of the attempts
AttemptedCommands ==
  [i \in 1..Len(worker.attempted) |-> worker.attempted[i].command]

\* The attempt failed: the action is unknown, or a chrome call rejected and
\* the rejection was not caught inside the case
AttemptFailed(a) ==
  \/ a.command.action \notin KnownActions
  \/ a.rejected /\ a.command.action # "shuffle_tabs"

\* The loop over the batch has ended
LoopLeft == worker.pc \in { "clearing", "syncing", "responding" }

\* C21: the list the popup gets from get_commands holds pending commands
\* only; the commands executeCommands has attempted are, in list order, the
\* pending commands among those the loop has passed; an attempt that
\* failed (unknown action, or a rejected chrome call) pushed a failure
\* result with the command's id; and when the loop has ended every pending
\* command of the batch has been attempted, whatever failed before it
C21_AttemptsInOrderDespiteFailures ==
  /\ \A i \in 1..Len(pendingCommands) : isPending(pendingCommands[i])
  /\ AttemptedCommands
       = SelectSeq(SubSeq(worker.commands, 1, worker.next - 1), isPending)
  /\ \A i \in 1..Len(worker.attempted) :
       AttemptFailed(worker.attempted[i]) =>
         /\ worker.attempted[i].resultsBefore < Len(worker.results)
         /\ LET r == worker.results[worker.attempted[i].resultsBefore + 1]
            IN  r.id = worker.attempted[i].command.id /\ ~r.success
  /\ LoopLeft => AttemptedCommands = SelectSeq(worker.commands, isPending)

\* A batch of three has been gone through: the first command has an
\* unknown action, the chrome call of the second rejected, the third
\* succeeded, and the queue file holds a record that is not pending
C21_Witness ==
  /\ LoopLeft
  /\ Len(worker.attempted) = 3
  /\ Len(worker.results) = 3
  /\ worker.attempted[1].command.action \notin KnownActions
  /\ worker.attempted[2].rejected
  /\ ~worker.results[1].success
  /\ ~worker.results[2].success
  /\ worker.results[3].success
  /\ \E i \in 1..Len(commandsFile.content) : ~isPending(commandsFile.content[i])

\* The call has completed or failed
Settled(call) == call \in { "completed", "failed" }

\* C22: while an executeCommands message is handled, the clear has been
\* requested only if the loop has passed the whole batch and every pending
\* command of it has been attempted; the re-sync has been requested only
\* if the clear has completed or failed; the step that sends the response
\* is taken only when the re-sync has completed or failed; and every
\* message in hand leads to its response, whatever the clear and the
\* re-sync did
C22_ClearThenSyncThenRespond ==
  /\ [](worker.clear # "no" =>
          /\ worker.next > Len(worker.commands)
          /\ AttemptedCommands = SelectSeq(worker.commands, isPending))
  /\ [](worker.sync # "no" => Settled(worker.clear))
  /\ [][worker.pc # "idle" /\ worker'.pc = "idle" =>
          /\ Settled(worker.sync)
          /\ pendingCommands' = << >>]_vars
  /\ (worker.pc # "idle") ~> (worker.pc = "idle")

\* The clear and the re-sync of a batch of two have both failed and the
\* response is about to be sent
C22_Witness ==
  /\ worker.pc = "responding"
  /\ Len(worker.attempted) = 2
  /\ worker.clear = "failed"
  /\ worker.sync = "failed"

\* The step in which the host's clear_commands answers
ClearCompletes == worker.clear = "requested" /\ worker'.clear = "completed"

\* C23: when the host's clear_commands empties the queue file, every pending
\* command the file holds has been attempted by the executor in the batch
\* that is being handled
C23_NoCommandLost ==
  [][ClearCompletes =>
        \A i \in 1..Len(commandsFile.content) :
          isPending(commandsFile.content[i]) =>
            \E j \in 1..Len(AttemptedCommands) :
              AttemptedCommands[j] = commandsFile.content[i]]_vars

\* The record is in the queue file as a pending command
PendingIn(file, c) ==
  \E i \in 1..Len(file.content) : file.content[i] = c /\ isPending(c)

\* C24: once clear_commands has emptied the queue for the batch in hand, no
\* step puts a command of that batch back into the queue as pending.  The
\* commands meant are those stamped before the present millisecond: a
\* record with the present time as its id is a command written now
C24_ExecutedNeverReappears ==
  [][worker.clear = "completed" =>
       \A j \in 1..Len(AttemptedCommands) :
         (/\ AttemptedCommands[j].id < now
          /\ ~PendingIn(commandsFile, AttemptedCommands[j]))
           => ~PendingIn(commandsFile', AttemptedCommands[j])]_vars
====
